---- MODULE Spec2Model ----
(***************************************************************************)
(* Failover manager of the autonomous-development harness: the per-model   *)
(* CircuitBreaker, FailoverManager.executeWithFailover with graceful       *)
(* degradation, and FailoverManager.handlePartialSuccess.                  *)
(*                                                                         *)
(* Time is Date.now() in units of one second (the backoff base of 1000 ms  *)
(* is one unit).  A JavaScript run-to-completion segment (the code between *)
(* two awaits) is one action and reads one value of the clock.             *)
(***************************************************************************)
EXTENDS Integers, Sequences, FiniteSets, TLC

VARIABLES
    now,                  \* Date.now()
    circuitBreaker,       \* the CircuitBreaker instance: failures, openCircuits, halfOpenAttempts
    gracefulDegradation,  \* FailoverManager option
    calls,                \* the execute / executeWithFailover calls in flight or returned
    returned,             \* the call that returned last, with what it returned
    starts,               \* calls started so far
    failedSince,          \* history: per model, times of the failures recorded since its last success or reset
    openedAt,             \* history: per model that is open, the time its breaker went from not open to open
    probeFailedAt,        \* history: per model, time of its last failed half-open probe
    partialSuccess,       \* FailoverManager option
    minSuccessRate,       \* option passed to the FailoverManager constructor, in percent
    results,              \* argument of the last handlePartialSuccess call
    partial,              \* value returned by the last handlePartialSuccess call
    state,                \* the session state object of the running orchestrator
    pc,                   \* the orchestrator's position: the statement or graph node that runs next
    checkpoint,           \* content of state/current-session.json
    repo,                 \* the git working tree and the commits made
    log                   \* history of the run: the last handler invocation and what it did,
                          \* the invocations counted, the deadline found exceeded

vars == << now, circuitBreaker, gracefulDegradation, calls, returned, starts,
           failedSince, openedAt, probeFailedAt,
           partialSuccess, minSuccessRate, results, partial,
           state, pc, checkpoint, repo, log >>

history == << failedSince, openedAt, probeFailedAt >>

partialVars == << partialSuccess, minSuccessRate, results, partial >>

orchVars == << state, pc, checkpoint, repo, log >>

failoverVars == << circuitBreaker, gracefulDegradation, calls, returned, starts,
                   failedSince, openedAt, probeFailedAt, partialVars >>

-----------------------------------------------------------------------------
(* Bounds of the model *)

FailureThreshold == 2
ResetTimeout == 2
MonitoringPeriod == 3
MaxTime == 4
MaxStarts == 3
MaxExecutes == 4
MaxResults == 4

Slots == {1, 2}
FSlots == {1}

-----------------------------------------------------------------------------
(* JavaScript Map: a function on the set of its keys *)

EmptyMap == << >>

MapHas(map, k) == k \in DOMAIN map

MapGetOr(map, k, default) == IF k \in DOMAIN map THEN map[k] ELSE default

MapSet(map, k, v) == [x \in DOMAIN map \cup {k} |-> IF x = k THEN v ELSE map[x]]

MapDelete(map, k) == [x \in DOMAIN map \ {k} |-> map[x]]

Min(a, b) == IF a < b THEN a ELSE b

-----------------------------------------------------------------------------
(* MODEL FAILOVER HIERARCHY *)

MODEL_HIERARCHY ==
    [ planner |->
        << [model |-> "opencode/gpt-5-nano", priority |-> 1],
           [model |-> "opencode/trinity-large-preview-free", priority |-> 2],
           [model |-> "opencode/glm-4.7-free", priority |-> 3] >>,
      coder |->
        << [model |-> "opencode/gpt-5-nano", priority |-> 1],
           [model |-> "opencode/grok-code", priority |-> 2],
           [model |-> "opencode/trinity-large-preview-free", priority |-> 3] >>,
      reviewer |->
        << [model |-> "opencode/gpt-5-nano", priority |-> 1],
           [model |-> "opencode/trinity-large-preview-free", priority |-> 2],
           [model |-> "opencode/minimax-m2.1-free", priority |-> 3] >> ]

Models ==
    UNION { { MODEL_HIERARCHY[r][i].model : i \in 1..Len(MODEL_HIERARCHY[r]) } :
            r \in DOMAIN MODEL_HIERARCHY }

\* const modelList = MODEL_HIERARCHY[agentType] || MODEL_HIERARCHY.planner
ModelList(agentType) ==
    IF agentType \in DOMAIN MODEL_HIERARCHY
        THEN MODEL_HIERARCHY[agentType]
        ELSE MODEL_HIERARCHY.planner

-----------------------------------------------------------------------------
(* CIRCUIT BREAKER *)

NewCircuitBreaker ==
    [ failures |-> EmptyMap, openCircuits |-> EmptyMap, halfOpenAttempts |-> EmptyMap ]

IsOpen(cb, model) == MapHas(cb.openCircuits, model)

Open(cb, model, t) ==
    IF ~IsOpen(cb, model)
        THEN [cb EXCEPT !.openCircuits = MapSet(@, model, t)]
        ELSE cb

Close(cb, model) ==
    [cb EXCEPT !.openCircuits = MapDelete(@, model),
               !.failures = MapDelete(@, model),
               !.halfOpenAttempts = MapDelete(@, model)]

\* RecordFailure opening only above the threshold
RecordFailure_AboveThreshold(cb, model, t) ==
    LET failures == Append(MapGetOr(cb.failures, model, << >>), t)
        filtered == SelectSeq(failures, LAMBDA x : t - x < MonitoringPeriod)
        cb1 == [cb EXCEPT !.failures = MapSet(@, model, filtered)]
    IN  IF Len(filtered) > FailureThreshold THEN Open(cb1, model, t) ELSE cb1

RecordFailure(cb, model, t) ==
    LET failures == Append(MapGetOr(cb.failures, model, << >>), t)
        filtered == SelectSeq(failures, LAMBDA x : t - x < MonitoringPeriod)
        cb1 == [cb EXCEPT !.failures = MapSet(@, model, filtered)]
    IN  IF Len(filtered) >= FailureThreshold THEN Open(cb1, model, t) ELSE cb1

RecordSuccess(cb, model) ==
    [cb EXCEPT !.failures = MapDelete(@, model),
               !.halfOpenAttempts = MapDelete(@, model)]

GetStatus(cb, model) ==
    IF IsOpen(cb, model) THEN "OPEN"
    ELSE IF Len(MapGetOr(cb.failures, model, << >>)) > 0 THEN "MONITORING"
    ELSE "CLOSED"

ResetAll(cb) ==
    [cb EXCEPT !.failures = EmptyMap,
               !.openCircuits = EmptyMap,
               !.halfOpenAttempts = EmptyMap]

\* ExecuteGate with a cooldown one unit short
ExecuteGate_ShortCooldown(cb, model, t) ==
    IF IsOpen(cb, model)
        THEN IF t - cb.openCircuits[model] < ResetTimeout - 1
                 THEN "rejected"
                 ELSE "halfopen"
        ELSE "closed"

\* execute, up to the call of fn: what the call does with the breaker as it is
ExecuteGate(cb, model, t) ==
    IF IsOpen(cb, model)
        THEN IF t - cb.openCircuits[model] < ResetTimeout
                 THEN "rejected"
                 ELSE "halfopen"
        ELSE "closed"

\* attemptHalfOpen, after fn has settled
AttemptHalfOpenSettle(cb, model, ok, t) ==
    IF ok THEN Close(cb, model) ELSE Open(cb, model, t)

\* execute with the circuit closed, after fn has settled
ExecuteSettle(cb, model, ok, t) ==
    IF ok THEN RecordSuccess(cb, model) ELSE RecordFailure(cb, model, t)

SettleBreaker(cb, model, mode, ok, t) ==
    IF mode = "halfopen"
        THEN AttemptHalfOpenSettle(cb, model, ok, t)
        ELSE ExecuteSettle(cb, model, ok, t)

-----------------------------------------------------------------------------
(* FAILOVER MANAGER *)

\* What fn (executeAgent) can do: resolve, or reject with one of these messages
ErrorMessages == { "Timeout after 300000ms", "authentication failed" }

Outcomes == { "ok" } \cup ErrorMessages

FatalPatterns ==
    { "invalid prompt", "malformed request", "authentication failed",
      "forbidden", "not authorized" }

\* p.test(message), case-insensitive, for the messages of the model
PatternTest(p, message) ==
    << p, message >> \in { << "authentication failed", "authentication failed" >> }

IsFatalError(message) == \E p \in FatalPatterns : PatternTest(p, message)

\* backoff(attempt): Math.min(1000 * Math.pow(2, attempt - 1), 10000) ms
Backoff(attempt) == Min(2 ^ (attempt - 1), 10)

Null == [ null |-> TRUE ]

DegradedPlanner ==
    [ success |-> TRUE,
      result |-> [ milestones |-> << "Analyze requirements", "Implement changes" >>,
                   confidence |-> 50 ],
      model |-> "degraded-template",
      degraded |-> TRUE ]

DegradedCoder ==
    [ success |-> TRUE,
      result |-> [ files |-> << "MANUAL_IMPLEMENTATION_NEEDED.md" >>,
                   issues |-> << "AI coder unavailable" >> ],
      model |-> "degraded-manual",
      degraded |-> TRUE,
      needsUserInput |-> TRUE ]

DegradedReviewer ==
    [ success |-> TRUE,
      result |-> [ approved |-> TRUE, code_quality |-> 70 ],
      model |-> "degraded-static",
      degraded |-> TRUE ]

\* AttemptGracefulDegradation without the coder case
AttemptGracefulDegradation_NoCoder(agentType) ==
    CASE agentType = "planner" -> DegradedPlanner
      [] agentType = "reviewer" -> DegradedReviewer
      [] OTHER -> Null

AttemptGracefulDegradation(agentType) ==
    CASE agentType = "planner" -> DegradedPlanner
      [] agentType = "coder" -> DegradedCoder
      [] agentType = "reviewer" -> DegradedReviewer
      [] OTHER -> Null

\* AllModelsFailed degrading whatever the gracefulDegradation option says
AllModelsFailed_AlwaysDegrades(gd, rec) ==
    LET degraded == AttemptGracefulDegradation(rec.agentType)
    IN  [rec EXCEPT !.pc = "done",
                    !.result =
                        IF degraded # Null
                            THEN degraded
                            ELSE [ success |-> FALSE,
                                   errors |-> rec.errors,
                                   message |-> "All models failed" ]]

\* executeWithFailover after its loop: "All models failed"
AllModelsFailed(gd, rec) ==
    LET degraded == AttemptGracefulDegradation(rec.agentType)
    IN  [rec EXCEPT !.pc = "done",
                    !.result =
                        IF gd /\ degraded # Null
                            THEN degraded
                            ELSE [ success |-> FALSE,
                                   errors |-> rec.errors,
                                   message |-> "All models failed" ]]

RECURSIVE LoopFrom(_, _, _, _, _)
RECURSIVE Catch(_, _, _, _, _, _)

\* The loop treating an OPEN candidate as a failed one
LoopFrom_SkipIsFailure(cb, gd, t, rec, i) ==
    LET modelList == ModelList(rec.agentType)
    IN  IF i > Len(modelList) THEN AllModelsFailed(gd, rec)
        ELSE LET model == modelList[i].model
                 gate == ExecuteGate(cb, model, t)
             IN  IF GetStatus(cb, model) = "OPEN"
                     THEN Catch(cb, gd, t,
                                [rec EXCEPT !.skipped =
                                    Append(@, [ model |-> model,
                                                openFor |-> t - cb.openCircuits[model] ])],
                                i, "Circuit breaker OPEN")
                 ELSE IF gate = "rejected"
                     THEN Catch(cb, gd, t, rec, i, "Circuit breaker OPEN")
                 ELSE [rec EXCEPT !.pc = "fn", !.idx = i, !.model = model,
                                  !.mode = gate, !.invoked = Append(@, model)]

\* The body of the for loop from candidate i on, up to the next await: OPEN
\* candidates are skipped, the first other candidate is handed to
\* circuitBreaker.execute.
LoopFrom(cb, gd, t, rec, i) ==
    LET modelList == ModelList(rec.agentType)
    IN  IF i > Len(modelList) THEN AllModelsFailed(gd, rec)
        ELSE LET model == modelList[i].model
                 gate == ExecuteGate(cb, model, t)
             IN  IF GetStatus(cb, model) = "OPEN"
                     THEN LoopFrom(cb, gd, t,
                                   [rec EXCEPT !.skipped =
                                       Append(@, [ model |-> model,
                                                   openFor |-> t - cb.openCircuits[model] ])],
                                   i + 1)
                 ELSE IF gate = "rejected"
                     THEN Catch(cb, gd, t, rec, i, "Circuit breaker OPEN")
                 ELSE [rec EXCEPT !.pc = "fn", !.idx = i, !.model = model,
                                  !.mode = gate, !.invoked = Append(@, model)]

\* Catch going on with the next candidate after a fatal error too
Catch_NoFatalCheck(cb, gd, t, rec, i, message) ==
    LET modelList == ModelList(rec.agentType)
        priority == modelList[i].priority
        rec1 == [rec EXCEPT !.errors = Append(@, [ model |-> modelList[i].model,
                                                   error |-> message,
                                                   priority |-> priority ])]
    IN  IF priority < Len(modelList)
            THEN [rec1 EXCEPT !.pc = "backoff", !.idx = i,
                              !.wakeAt = t + Backoff(priority),
                              !.backoffs = Append(@, priority)]
        ELSE LoopFrom(cb, gd, t, rec1, i + 1)

\* Catch retrying the failed candidate in place after the backoff
Catch_RetryInPlace(cb, gd, t, rec, i, message) ==
    LET modelList == ModelList(rec.agentType)
        priority == modelList[i].priority
        rec1 == [rec EXCEPT !.errors = Append(@, [ model |-> modelList[i].model,
                                                   error |-> message,
                                                   priority |-> priority ])]
    IN  IF IsFatalError(message) THEN AllModelsFailed(gd, rec1)
        ELSE IF priority < Len(modelList) /\ Len(rec.backoffs) < priority
            THEN [rec1 EXCEPT !.pc = "backoff", !.idx = i - 1,
                              !.wakeAt = t + Backoff(priority),
                              !.backoffs = Append(@, priority)]
        ELSE IF priority < Len(modelList)
            THEN [rec1 EXCEPT !.pc = "backoff", !.idx = i,
                              !.wakeAt = t + Backoff(priority),
                              !.backoffs = Append(@, priority)]
        ELSE LoopFrom(cb, gd, t, rec1, i + 1)

\* The catch block for candidate i
Catch(cb, gd, t, rec, i, message) ==
    LET modelList == ModelList(rec.agentType)
        priority == modelList[i].priority
        rec1 == [rec EXCEPT !.errors = Append(@, [ model |-> modelList[i].model,
                                                   error |-> message,
                                                   priority |-> priority ])]
    IN  IF IsFatalError(message) THEN AllModelsFailed(gd, rec1)
        ELSE IF priority < Len(modelList)
            THEN [rec1 EXCEPT !.pc = "backoff", !.idx = i,
                              !.wakeAt = t + Backoff(priority),
                              !.backoffs = Append(@, priority)]
        ELSE LoopFrom(cb, gd, t, rec1, i + 1)

NoResult == [ pending |-> TRUE ]

\* handlePartialSuccess(results); the rate test successRate >= 0.5 is
\* succeeded.length / results.length >= 1/2
HandlePartialSuccess(ps, res) ==
    IF ~ps THEN [ success |-> FALSE, reason |-> "Partial success not allowed" ]
    ELSE LET succeeded == SelectSeq(res, LAMBDA r : r.success)
             failed == SelectSeq(res, LAMBDA r : ~r.success)
         IN  IF Len(succeeded) = 0
                 THEN [ success |-> FALSE, reason |-> "All agents failed" ]
             ELSE IF 2 * Len(succeeded) >= Len(res)
                 THEN [ success |-> TRUE,
                        results |-> succeeded,
                        partial |-> TRUE,
                        failedCount |-> Len(failed) ]
             ELSE [ success |-> FALSE, reason |-> "Success rate too low" ]

IdleCall == [ kind |-> "none", pc |-> "idle" ]

NewFailoverCall(agentType) ==
    [ kind |-> "failover", pc |-> "loop", agentType |-> agentType, idx |-> 0,
      model |-> "", mode |-> "", errors |-> << >>, invoked |-> << >>,
      outcomes |-> << >>, skipped |-> << >>, backoffs |-> << >>, wakeAt |-> 0,
      result |-> NoResult ]

AgentTypes == { "planner", "coder", "reviewer", "tester" }

\* the minSuccessRate options tried, in percent
MinSuccessRates == { 50, 60, 67 }

\* the results of a fan-out, as Promise.all returns them: per agent the value of
\* its executeWithFailover call, here success and the agent's number as result
WorkerResults ==
    UNION { { [i \in 1..n |-> [ success |-> f[i], result |-> i ]] : f \in [1..n -> BOOLEAN] } :
            n \in 0..MaxResults }

-----------------------------------------------------------------------------------------------------------------------------------------------------
(* Actions *)

\* no orchestrator runs
NoOrchestrator ==
    /\ state = Null
    /\ pc = "none"
    /\ checkpoint = Null
    /\ repo = Null
    /\ log = << >>

Free(c) == calls[c].pc = "idle"

\* a new call takes the first free slot
CanStart(c, max) ==
    /\ starts < max
    /\ Free(c)
    /\ \A d \in Slots : d < c => ~Free(d)

InitFailover(options) ==
    /\ now = 0
    /\ circuitBreaker = NewCircuitBreaker
    /\ gracefulDegradation \in options
    /\ calls = [c \in Slots |-> IdleCall]
    /\ returned = IdleCall
    /\ starts = 0
    /\ failedSince = [m \in Models |-> << >>]
    /\ openedAt = EmptyMap
    /\ probeFailedAt = EmptyMap
    /\ partialSuccess = TRUE
    /\ minSuccessRate = 50
    /\ results = << >>
    /\ partial = NoResult

InitWith(options) == InitFailover(options) /\ NoOrchestrator

Init == InitWith(BOOLEAN)

\* new FailoverManager(options): partialSuccess is kept (options.partialSuccess
\* !== false); the constructor reads no minSuccessRate, the option stays with
\* the caller
InitPartial ==
    /\ now = 0
    /\ circuitBreaker = NewCircuitBreaker
    /\ gracefulDegradation = TRUE
    /\ calls = [c \in Slots |-> IdleCall]
    /\ returned = IdleCall
    /\ starts = 0
    /\ failedSince = [m \in Models |-> << >>]
    /\ openedAt = EmptyMap
    /\ probeFailedAt = EmptyMap
    /\ partialSuccess \in BOOLEAN
    /\ minSuccessRate \in MinSuccessRates
    /\ results = << >>
    /\ partial = NoResult
    /\ NoOrchestrator

InitBreaker == InitWith({TRUE})

\* The clock.  Clock values matter only relative to a recorded time, so it
\* starts running with the first record or timer.
Tick ==
    /\ now < MaxTime
    /\ \/ circuitBreaker # NewCircuitBreaker
       \/ \E c \in Slots : calls[c].pc = "backoff"
    /\ now' = now + 1
    /\ UNCHANGED << circuitBreaker, gracefulDegradation, calls, returned, starts,
                    history, partialVars, orchVars >>

\* time since a recorded time, -1 when there is none
Since(map, model) == IF MapHas(map, model) THEN now - map[model] ELSE -1

\* the history, after fn has settled for a call of the given mode
HistoryAfter(cb1, model, mode, ok) ==
    /\ failedSince' = [failedSince EXCEPT ![model] = IF ok THEN << >> ELSE Append(@, now)]
    /\ openedAt' = IF ~IsOpen(cb1, model) THEN MapDelete(openedAt, model)
                   ELSE IF ~IsOpen(circuitBreaker, model) THEN MapSet(openedAt, model, now)
                   ELSE openedAt
    /\ probeFailedAt' = IF ~IsOpen(cb1, model) THEN MapDelete(probeFailedAt, model)
                        ELSE IF mode = "halfopen" /\ ~ok THEN MapSet(probeFailedAt, model, now)
                        ELSE probeFailedAt

\* circuitBreaker.execute(model, fn) called directly, up to its await of fn
Execute(c, model) ==
    /\ CanStart(c, MaxExecutes)
    /\ LET gate == ExecuteGate(circuitBreaker, model, now)
           rec == [ kind |-> "execute", model |-> model,
                    openFor |-> Since(openedAt, model),
                    probeFailedFor |-> Since(probeFailedAt, model),
                    pc |-> IF gate = "rejected" THEN "done" ELSE "fn",
                    mode |-> gate,
                    invoked |-> gate # "rejected",
                    statusAfter |-> "",
                    failuresAfter |-> << >>,
                    result |-> IF gate = "rejected"
                                   THEN [ threw |-> "Circuit breaker OPEN" ]
                                   ELSE NoResult ]
       IN  IF gate = "rejected"
               THEN calls' = calls /\ returned' = rec
               ELSE calls' = [calls EXCEPT ![c] = rec] /\ returned' = returned
    /\ starts' = starts + 1
    /\ UNCHANGED << now, circuitBreaker, gracefulDegradation, history, partialVars, orchVars >>

\* fn settles for a direct execute call: the rest of execute / attemptHalfOpen
ExecuteReturn(c, outcome) ==
    /\ calls[c].pc = "fn"
    /\ calls[c].kind = "execute"
    /\ LET rec == calls[c]
           ok == outcome = "ok"
           cb1 == SettleBreaker(circuitBreaker, rec.model, rec.mode, ok, now)
       IN  /\ circuitBreaker' = cb1
           /\ HistoryAfter(cb1, rec.model, rec.mode, ok)
           /\ returned' = [rec EXCEPT !.pc = "done",
                                      !.statusAfter = GetStatus(cb1, rec.model),
                                      !.failuresAfter = MapGetOr(cb1.failures, rec.model, << >>),
                                      !.result = IF ok THEN [ value |-> "output" ]
                                                       ELSE [ threw |-> outcome ]]
           /\ calls' = [calls EXCEPT ![c] = IdleCall]
    /\ UNCHANGED << now, gracefulDegradation, starts, partialVars, orchVars >>

\* a call record after a run-to-completion segment: stored in its slot while it
\* awaits, handed back when it has returned
Continue(c, rec) ==
    IF rec.pc = "done"
        THEN calls' = [calls EXCEPT ![c] = IdleCall] /\ returned' = rec
        ELSE calls' = [calls EXCEPT ![c] = rec] /\ returned' = returned

\* executeWithFailover(agentType, prompt, options), up to its first await
ExecuteWithFailover(c, agentType) ==
    /\ CanStart(c, MaxStarts)
    /\ Continue(c, LoopFrom(circuitBreaker, gracefulDegradation, now,
                            NewFailoverCall(agentType), 1))
    /\ starts' = starts + 1
    /\ UNCHANGED << now, circuitBreaker, gracefulDegradation, history, partialVars, orchVars >>

\* fn (executeAgent) settles for a failover call: the rest of execute, and the
\* code of executeWithFailover after its await of circuitBreaker.execute
AgentSettle(c, outcome) ==
    /\ calls[c].pc = "fn"
    /\ calls[c].kind = "failover"
    /\ LET rec == [calls[c] EXCEPT !.outcomes = Append(@, outcome)]
           ok == outcome = "ok"
           cb1 == SettleBreaker(circuitBreaker, rec.model, rec.mode, ok, now)
       IN  /\ circuitBreaker' = cb1
           /\ HistoryAfter(cb1, rec.model, rec.mode, ok)
           /\ Continue(c,
                  IF ok
                      THEN [rec EXCEPT !.pc = "done",
                                       !.result =
                                           [ success |-> TRUE,
                                             result |-> "output",
                                             model |-> rec.model,
                                             fallback |->
                                                 ModelList(rec.agentType)[rec.idx].priority > 1 ]]
                      ELSE Catch(cb1, gracefulDegradation, now, rec, rec.idx, outcome))
    /\ UNCHANGED << now, gracefulDegradation, starts, partialVars, orchVars >>

\* the backoff timer fires: the loop goes on with the next candidate
BackoffDone(c) ==
    /\ calls[c].pc = "backoff"
    /\ now >= calls[c].wakeAt
    /\ Continue(c, LoopFrom(circuitBreaker, gracefulDegradation, now,
                            calls[c], calls[c].idx + 1))
    /\ UNCHANGED << now, circuitBreaker, gracefulDegradation, starts, history, partialVars, orchVars >>

\* resetCircuitBreakers()
ResetCircuitBreakers ==
    /\ circuitBreaker # NewCircuitBreaker
    /\ circuitBreaker' = ResetAll(circuitBreaker)
    /\ failedSince' = [m \in Models |-> << >>]
    /\ openedAt' = EmptyMap
    /\ probeFailedAt' = EmptyMap
    /\ UNCHANGED << now, gracefulDegradation, calls, returned, starts, partialVars, orchVars >>

\* the models the direct callers of the breaker use
DirectModels == { "opencode/gpt-5-nano", "opencode/grok-code" }

NextBreaker ==
    \/ Tick
    \/ \E c \in Slots, model \in DirectModels : Execute(c, model)
    \/ \E c \in Slots, outcome \in Outcomes : ExecuteReturn(c, outcome)
    \/ ResetCircuitBreakers

SpecBreaker == InitBreaker /\ [][NextBreaker]_vars

Next ==
    \/ Tick
    \/ \E c \in FSlots, agentType \in AgentTypes : ExecuteWithFailover(c, agentType)
    \/ \E c \in FSlots, outcome \in Outcomes : AgentSettle(c, outcome)
    \/ \E c \in FSlots : BackoffDone(c)
    \/ ResetCircuitBreakers

Spec == Init /\ [][Next]_vars

\* failoverManager.handlePartialSuccess(results)
CallHandlePartialSuccess(res) ==
    /\ results' = res
    /\ partial' = HandlePartialSuccess(partialSuccess, res)
    /\ UNCHANGED << now, circuitBreaker, gracefulDegradation, calls, returned, starts,
                    history, partialSuccess, minSuccessRate, orchVars >>

NextPartial == \E res \in WorkerResults : CallHandlePartialSuccess(res)

SpecPartial == InitPartial /\ [][NextPartial]_vars

-----------------------------------------------------------------------------
(* Properties of the CircuitBreaker, under SpecBreaker *)

\* the calls to look at: those in flight and the one that returned last
Records == { calls[c] : c \in Slots } \cup { returned }

ExecuteRecords == { r \in Records : r.kind = "execute" }

\* how many of the given failure times lie within the last monitoringPeriod
InWindow(times) ==
    Cardinality({ i \in 1..Len(times) : now - times[i] < MonitoringPeriod })

Rejected(r) == r.pc = "done" /\ ~r.invoked /\ "threw" \in DOMAIN r.result

\* C1: once failureThreshold failures of a model have been recorded within
\* monitoringPeriod with no success (or reset) in between, its breaker is OPEN;
\* and every execute call started less than resetTimeout after the breaker
\* opened throws without invoking fn.
C1_OpenRejectsDuringCooldown ==
    /\ \A m \in Models :
           InWindow(failedSince[m]) >= FailureThreshold
               => GetStatus(circuitBreaker, m) = "OPEN"
    /\ \A r \in ExecuteRecords :
           (r.openFor >= 0 /\ r.openFor < ResetTimeout) => Rejected(r)

\* a call was rejected during the cooldown of a breaker that the threshold opened
C1_Witness ==
    /\ returned.kind = "execute"
    /\ returned.openFor >= 0
    /\ returned.openFor < ResetTimeout
    /\ Rejected(returned)
    /\ InWindow(failedSince[returned.model]) >= FailureThreshold

\* C2: after resetTimeout exactly one call is let through as the half-open
\* probe: of the execute calls that overlap in time, only one has invoked fn
\* until the probe's outcome has been recorded.
C2_SingleProbe ==
    \A m \in Models :
        Cardinality({ c \in Slots : /\ calls[c].kind = "execute"
                                    /\ calls[c].pc = "fn"
                                    /\ calls[c].mode = "halfopen"
                                    /\ calls[c].model = m }) <= 1

\* C4: a successful half-open probe leaves the breaker CLOSED with an empty
\* failure history; a failed probe leaves it OPEN and restarts the cooldown:
\* every execute call started less than resetTimeout after the failed probe is
\* rejected without invoking fn.
C4_ProbeOutcome ==
    /\ (returned.kind = "execute" /\ returned.mode = "halfopen") =>
           IF "value" \in DOMAIN returned.result
               THEN returned.statusAfter = "CLOSED" /\ returned.failuresAfter = << >>
               ELSE returned.statusAfter = "OPEN"
    /\ \A r \in ExecuteRecords :
           (r.probeFailedFor >= 0 /\ r.probeFailedFor < ResetTimeout) => Rejected(r)

BreakerFailures(m) == MapGetOr(circuitBreaker.failures, m, << >>)

\* C5 as stated: a breaker is OPEN if and only if the number of its recorded
\* failures within the last monitoringPeriod is at least failureThreshold.
C5_OpenIffThreshold ==
    \A m \in Models :
        IsOpen(circuitBreaker, m) <=> InWindow(BreakerFailures(m)) >= FailureThreshold

\* C5 as amended: if the number of a model's recorded failures within the last
\* monitoringPeriod is at least failureThreshold, its breaker is OPEN.  (An
\* OPEN breaker stays OPEN when its failures age out of the window or are
\* cleared by the success of a call that was in flight.)
C5_OpenIfThreshold ==
    \A m \in Models :
        InWindow(BreakerFailures(m)) >= FailureThreshold => IsOpen(circuitBreaker, m)

\* a breaker holds failureThreshold failures within the window, the last of
\* them recorded while time went on
C5_Witness ==
    \E m \in Models :
        /\ InWindow(BreakerFailures(m)) >= FailureThreshold
        /\ IsOpen(circuitBreaker, m)
        /\ BreakerFailures(m)[1] < now

-----------------------------------------------------------------------------
(* Properties of executeWithFailover, under Spec *)

FailoverRecords == { r \in Records : r.kind = "failover" }

Returned(r) == r.kind = "failover" /\ r.pc = "done"

Range(seq) == { seq[i] : i \in 1..Len(seq) }

\* the place of a model in the role's candidate list
Position(agentType, model) ==
    CHOOSE i \in 1..Len(ModelList(agentType)) : ModelList(agentType)[i].model = model

DegradableTypes == { "planner", "coder", "reviewer" }

DegradedModel(agentType) ==
    CASE agentType = "planner" -> "degraded-template"
      [] agentType = "coder" -> "degraded-manual"
      [] agentType = "reviewer" -> "degraded-static"

\* every candidate the call invoked has failed
AllInvokedFailed(r) == \A j \in 1..Len(r.outcomes) : r.outcomes[j] # "ok"

\* C3: an opened model recovers without operator action: an executeWithFailover
\* call made resetTimeout or more after a model's breaker opened (and without a
\* reset) does not skip that model, it invokes it as a probe.
C3_OpenedModelIsProbed ==
    \A r \in FailoverRecords :
        \A j \in 1..Len(r.skipped) : r.skipped[j].openFor < ResetTimeout

\* C6: candidates are invoked in ascending priority order, each at most once per
\* call, and the first success ends the call: the candidates invoked before the
\* one that succeeded each failed once with a non-fatal error, the result names
\* the model that succeeded, degraded is not set, and fallback is true exactly
\* when that model is not the priority-1 candidate.
C6_FirstSuccessWins ==
    \A r \in FailoverRecords :
        /\ \A j, k \in 1..Len(r.invoked) :
               j < k => Position(r.agentType, r.invoked[j]) < Position(r.agentType, r.invoked[k])
        /\ \A j \in 1..Len(r.outcomes) :
               r.outcomes[j] = "ok" => j = Len(r.invoked) /\ r.pc = "done"
        /\ (Returned(r) /\ ~AllInvokedFailed(r)) =>
               LET n == Len(r.invoked)
                   modelList == ModelList(r.agentType)
               IN  /\ r.result.success
                   /\ r.result.model = r.invoked[n]
                   /\ "degraded" \notin DOMAIN r.result
                   /\ r.result.fallback = (r.result.model # modelList[1].model)
                   /\ Len(r.errors) = n - 1
                   /\ \A j \in 1..(n - 1) :
                          /\ r.errors[j].model = r.invoked[j]
                          /\ ~IsFatalError(r.errors[j].error)
                   /\ \A i \in 1..(Position(r.agentType, r.result.model) - 1) :
                          modelList[i].model \in
                              Range(r.invoked) \cup { x.model : x \in Range(r.skipped) }

\* candidates A and B failed, C succeeded
C6_Witness ==
    /\ Returned(returned)
    /\ returned.outcomes = << "Timeout after 300000ms", "Timeout after 300000ms", "ok" >>
    /\ returned.result.success
    /\ returned.result.model = ModelList(returned.agentType)[3].model
    /\ returned.result.fallback

\* C7: after a candidate fails with a fatal-class error the call invokes no
\* further candidate and waits no backoff; it ends with the degraded result when
\* graceful degradation is enabled (and defined for the role) and with
\* success: false otherwise.
C7_FatalStopsFailover ==
    \A r \in FailoverRecords :
        \A j \in 1..Len(r.errors) :
            IsFatalError(r.errors[j].error) =>
                /\ j = Len(r.errors)
                /\ r.pc = "done"
                /\ r.invoked[Len(r.invoked)] = r.errors[j].model
                /\ \A b \in Range(r.backoffs) : b < r.errors[j].priority
                /\ IF gracefulDegradation /\ r.agentType \in DegradableTypes
                       THEN r.result.success /\ r.result.degraded
                       ELSE ~r.result.success

\* a fatal error of the second candidate, after the first one's backoff
C7_Witness ==
    /\ Returned(returned)
    /\ returned.outcomes = << "Timeout after 300000ms", "authentication failed" >>
    /\ returned.backoffs = << 1 >>

\* C8: with gracefulDegradation enabled and role planner, coder or reviewer the
\* call never returns success: false; when every candidate has failed or been
\* skipped it returns success: true, degraded: true and the role's degraded
\* model.
C8_DegradedInsteadOfFailure ==
    \A r \in FailoverRecords :
        (Returned(r) /\ gracefulDegradation /\ r.agentType \in DegradableTypes) =>
            /\ r.result.success
            /\ AllInvokedFailed(r) =>
                   /\ "degraded" \in DOMAIN r.result
                   /\ r.result.degraded
                   /\ r.result.model = DegradedModel(r.agentType)

\* all three coder candidates failed and the call returned the manual task
C8_Witness ==
    /\ Returned(returned)
    /\ gracefulDegradation
    /\ returned.agentType = "coder"
    /\ Len(returned.outcomes) = 3
    /\ AllInvokedFailed(returned)
    /\ returned.result.model = "degraded-manual"

\* C9: the call returns success: false when all candidates are exhausted and
\* graceful degradation is disabled or not defined for the role; the errors
\* returned then hold exactly one entry per candidate that was invoked and
\* failed, in invocation order.
C9_FailureListsErrors ==
    \A r \in FailoverRecords :
        Returned(r) =>
            /\ (AllInvokedFailed(r) /\ (~gracefulDegradation \/ r.agentType \notin DegradableTypes))
                   => ~r.result.success
            /\ ~r.result.success =>
                   /\ ~gracefulDegradation \/ r.agentType \notin DegradableTypes
                   /\ Len(r.result.errors) = Len(r.invoked)
                   /\ \A j \in 1..Len(r.invoked) :
                          /\ r.result.errors[j].model = r.invoked[j]
                          /\ r.result.errors[j].error = r.outcomes[j]
                          /\ r.result.errors[j].priority = Position(r.agentType, r.invoked[j])

\* a role without degradation, graceful degradation enabled, one candidate
\* skipped as OPEN and the two others failed
C9_Witness ==
    /\ Returned(returned)
    /\ gracefulDegradation
    /\ returned.agentType = "tester"
    /\ ~returned.result.success
    /\ Len(returned.result.errors) = 2
    /\ Len(returned.skipped) = 1

-----------------------------------------------------------------------------
(* Properties of handlePartialSuccess, under SpecPartial *)

Succeeded(res) == Cardinality({ i \in 1..Len(res) : res[i].success })

\* C10: with partial success enabled, handlePartialSuccess accepts a fan-out's
\* results if and only if succeeded / total is at least the configured
\* minSuccessRate (2 of 4 are accepted with 0.5 and rejected with 0.6).
C10_AcceptsIffAtLeastMinSuccessRate ==
    (partial # NoResult /\ partialSuccess /\ Len(results) > 0) =>
        (partial.success <=> 100 * Succeeded(results) >= minSuccessRate * Len(results))


-----------------------------------------------------------------------------
(* scripts/orchestrator-opencode.js: the linear orchestrator.  A handler    *)
(* (analyzeIdea, createPlan, implementMilestone, reviewCode, runTests) from *)
(* its call to its return is one action; the clock may advance between two *)
(* actions, so a handler takes any amount of time.  Confidence values are   *)
(* in percent.                                                              *)

\* TIMEOUT_MS, in units of the clock
TIMEOUT_MS == 1
\* implementMilestone invocations of one run
MaxAttempts == 5
\* milestones of a plan a model returns
MaxMilestones == 2
\* createInitialState: maxRetries
maxRetries == 3

Last(seq) == seq[Len(seq)]

\* new FailoverManager({ ..., gracefulDegradation: true, partialSuccess: true })
OpencodeOptions == [ gracefulDegradation |-> TRUE, partialSuccess |-> TRUE ]

createInitialState(t) ==
    [ phase |-> "initializing",
      plan |-> Null,
      currentMilestone |-> 0,
      totalMilestones |-> 0,
      milestones |-> << >>,
      modifiedFiles |-> << >>,
      testPassed |-> FALSE,
      errors |-> << >>,
      retryCount |-> 0,
      maxRetries |-> maxRetries,
      progress |-> 0,
      status |-> "pending",
      timeoutAt |-> t + TIMEOUT_MS,
      degradedMode |-> FALSE ]

\* Math.round of a non-negative quotient
Round(num, den) == (2 * num + den) \div (2 * den)

\* saveCheckpoint: the object written to state/current-session.json.  The
\* progress is computed only when state.progress is undefined or NaN (-1)
saveCheckpoint(st) ==
    [st EXCEPT !.progress =
        IF st.progress = -1
            THEN IF st.totalMilestones > 0
                     THEN Round(100 * st.currentMilestone, st.totalMilestones)
                     ELSE 0
            ELSE st.progress]

\* what executeWithFailover(agentType, ...) returns when every model failed
AllFailedResult(agentType) ==
    AllModelsFailed(OpencodeOptions.gracefulDegradation, NewFailoverCall(agentType)).result

MilestoneNames == << "Milestone 1", "Milestone 2", "Milestone 3" >>

\* number of files (create and modify) of a milestone a model plans
FileCounts == { 2, 3 }

Confidences == { 30, 90 }

\* the plans a planner model returns
ModelPlans ==
    { [ milestones |-> [i \in 1..n |-> [ name |-> MilestoneNames[i], files |-> files ]],
        confidence |-> c ] :
        n \in 1..MaxMilestones,
        files \in FileCounts,
        c \in Confidences }

\* the template plan: of degradedPlanner, and of the catch block of createPlan
TemplatePlan(result) ==
    [ milestones |-> [i \in 1..Len(result.milestones) |->
                         [ name |-> result.milestones[i], files |-> 0 ]],
      confidence |-> result.confidence ]


\* Math.ceil(a / b)
Ceil(a, b) == (a + b - 1) \div b

\* implementMilestone: agentCount
AgentCount(milestone) == Min(3, Ceil(milestone.files, 2))

\* the paths of a milestone's files: allFiles
AllFiles(index, milestone) == [f \in 1..milestone.files |-> << index, f >>]

\* allFiles.slice(i * 2, (i + 1) * 2), i counted from 0
AgentFiles(allFiles, i) ==
    SubSeq(allFiles, i * 2 + 1, Min((i + 1) * 2, Len(allFiles)))

\* what a worker's executeWithFailover('coder', ...) call ends with: a model's
\* output with the files asked for, a model's output with a file entry that has
\* no content, or every model failed
WorkerOutcomes == { "output", "noContent", "allFailed" }

\* the value executeWithFailover returns to the worker; the degraded coder
\* writes its note to options.targetFile
WorkerResult(outcome, agentFiles) ==
    CASE outcome = "output" ->
            [ success |-> TRUE, result |-> [ files |-> agentFiles, content |-> TRUE ] ]
      [] outcome = "noContent" ->
            [ success |-> TRUE, result |-> [ files |-> agentFiles, content |-> FALSE ] ]
      [] OTHER ->
            LET r == AllFailedResult("coder")
            IN  IF r.success
                    THEN [ success |-> TRUE, degraded |-> TRUE,
                           result |-> [ files |-> << agentFiles[1] >>, content |-> TRUE ] ]
                    ELSE [ success |-> FALSE ]

\* first position of seq that satisfies Test, 0 when there is none
RECURSIVE FirstFrom(_, _, _)
FirstFrom(seq, Test(_), i) ==
    IF i > Len(seq) THEN 0
    ELSE IF Test(seq[i]) THEN i
    ELSE FirstFrom(seq, Test, i + 1)

\* concatenation of the result.files of the results in rs
RECURSIVE FilesOf(_)
FilesOf(rs) ==
    IF rs = << >> THEN << >>
    ELSE (IF Head(rs).success THEN Head(rs).result.files ELSE << >>) \o FilesOf(Tail(rs))

\* git.commitAll: git add -A; git commit || true
commitAll(r, message) ==
    IF r.worktree = {} THEN r
    ELSE [ worktree |-> {}, commits |-> Append(r.commits, [ message |-> message, files |-> r.worktree ]) ]

\* the history when orchestrate starts
NewLog ==
    [ last |-> [ handler |-> "none" ],  \* the last handler invocation
      attempts |-> EmptyMap,            \* per milestone index, the implementMilestone invocations
      invocations |-> 0,                \* the implementMilestone invocations of the run
      deadlineAt |-> "none",            \* where a check found the deadline exceeded
      late |-> {} ]                     \* the handlers invoked after that

\* the history after a handler invocation
Logged(entry) ==
    [log EXCEPT !.last = entry,
                !.late = IF log.deadlineAt # "none" THEN @ \cup { entry.handler } ELSE @,
                !.invocations = IF entry.handler = "implementMilestone" THEN @ + 1 ELSE @,
                !.attempts = IF entry.handler = "implementMilestone"
                                 THEN MapSet(@, entry.milestone,
                                             MapGetOr(@, entry.milestone, 0) + 1)
                                 ELSE @]

\* the entry of a handler other than implementMilestone
Entry(handler, ok) ==
    [ handler |-> handler, returned |-> ok ]

Attempts(index) == MapGetOr(log.attempts, index, 0)

Deadline == now > state.timeoutAt

\* the positions of orchestrate right after a handler has returned
AfterHandler ==
    { "afterAnalysis", "afterPlan", "afterMilestone", "afterReview", "afterTests" }


InitOpencode ==
    /\ InitFailover({ OpencodeOptions.gracefulDegradation })
    /\ state = createInitialState(now)
    /\ pc = "analyze"
    /\ checkpoint = Null
    /\ repo = [ worktree |-> {}, commits |-> << >> ]
    /\ log = NewLog

\* Time passes while a handler runs.  The orchestrator reads the clock only to
\* compare it with timeoutAt, so the clock stops once it is past timeoutAt.
Clock ==
    /\ pc \in AfterHandler
    /\ now < MaxTime
    /\ ~Deadline
    /\ now' = now + 1
    /\ UNCHANGED << failoverVars, orchVars >>

\* what the planner call of analyzeIdea ends with: a model's analysis, a
\* model's output that is not an object (JSON null), or every model failed
AnalysisOutcomes ==
    [ kind : { "output" }, requires_planning : BOOLEAN, estimated_milestones : { 0, 2 } ]
        \cup { [ kind |-> "null" ], [ kind |-> "allFailed" ] }

\* analyzeIdea(state)
analyzeIdea(outcome) ==
    /\ pc = "analyze"
    /\ LET result == IF outcome.kind = "allFailed" THEN AllFailedResult("planner")
                     ELSE [ success |-> TRUE ]
           threw == ~result.success \/ outcome.kind = "null"
           requires_planning == outcome.kind = "output" /\ outcome.requires_planning
           estimated_milestones == IF outcome.kind = "output"
                                       THEN outcome.estimated_milestones ELSE 0
           st == IF threw
                     THEN [state EXCEPT !.totalMilestones = 2,
                                        !.phase = "planning",
                                        !.degradedMode = TRUE]
                     ELSE [state EXCEPT
                              !.totalMilestones = IF estimated_milestones # 0
                                                      THEN estimated_milestones ELSE 3,
                              !.phase = IF requires_planning THEN "planning"
                                                             ELSE "implementing",
                              !.degradedMode = "degraded" \in DOMAIN result]
       IN  /\ state' = st
           /\ checkpoint' = saveCheckpoint(st)
           /\ log' = Logged(Entry("analyzeIdea", TRUE))
    /\ pc' = "afterAnalysis"
    /\ UNCHANGED << now, failoverVars, repo >>

\* what the planner call of createPlan ends with
PlanOutcomes ==
    [ kind : { "output" }, plan : ModelPlans ]
        \cup { [ kind |-> "null" ], [ kind |-> "allFailed" ] }

\* createPlan(state)
createPlan(outcome) ==
    /\ pc = "plan"
    /\ LET result == IF outcome.kind = "allFailed" THEN AllFailedResult("planner")
                     ELSE [ success |-> TRUE ]
           threw == ~result.success \/ outcome.kind = "null"
           plan == IF outcome.kind = "output" THEN outcome.plan
                   ELSE TemplatePlan(result.result)
           st == IF threw
                     THEN [state EXCEPT !.plan = TemplatePlan(DegradedPlanner.result),
                                        !.totalMilestones = 2,
                                        !.phase = "implementing",
                                        !.degradedMode = TRUE]
                     ELSE [state EXCEPT !.plan = plan,
                                        !.totalMilestones = Len(plan.milestones),
                                        !.phase = "implementing"]
       IN  /\ state' = st
           /\ checkpoint' = saveCheckpoint(st)
           /\ log' = Logged(Entry("createPlan", TRUE))
    /\ pc' = "afterPlan"
    /\ UNCHANGED << now, failoverVars, repo >>


\* the results of the workers of one milestone
OutcomeLists == UNION { [1..k -> WorkerOutcomes] : k \in 0..3 }

\* implementMilestone(state)
implementMilestone(outcomes) ==
    /\ pc = "loop"
    /\ state.currentMilestone < state.totalMilestones
    /\ log.invocations < MaxAttempts
    /\ LET milestoneIndex == state.currentMilestone
           milestone == state.plan.milestones[milestoneIndex + 1]
           allFiles == AllFiles(milestoneIndex, milestone)
           agentCount == AgentCount(milestone)
           rs == [i \in 1..agentCount |->
                     WorkerResult(outcomes[i], AgentFiles(allFiles, i - 1))]
           successCount == Cardinality({ i \in 1..agentCount : rs[i].success })
           failCount == Cardinality({ i \in 1..agentCount : ~rs[i].success })
           \* fs.writeFile(filePath, undefined) throws
           throwAt == FirstFrom(rs, LAMBDA r : r.success /\ ~r.result.content, 1)
           modifiedFiles == IF throwAt = 0 THEN FilesOf(rs)
                            ELSE FilesOf(SubSeq(rs, 1, throwAt - 1))
           written == [repo EXCEPT !.worktree = @ \cup Range(modifiedFiles)]
           committed == commitAll(written, milestone.name)
           st == IF throwAt = 0
                     THEN [state EXCEPT
                              !.modifiedFiles = @ \o modifiedFiles,
                              !.milestones = Append(@, [ name |-> milestone.name,
                                                         commit |-> Len(committed.commits),
                                                         partialSuccess |-> failCount > 0 ]),
                              !.currentMilestone = @ + 1]
                     ELSE [state EXCEPT
                              !.errors = Append(@, [ milestone |-> milestone.name,
                                                     error |-> "TypeError" ])]
       IN  /\ DOMAIN outcomes = 1..agentCount
           /\ state' = st
           /\ repo' = IF throwAt = 0 THEN committed ELSE written
           /\ checkpoint' = IF throwAt = 0 THEN saveCheckpoint(st) ELSE checkpoint
           /\ log' = Logged(
                  [ handler |-> "implementMilestone",
                    returned |-> throwAt = 0,
                    milestone |-> milestoneIndex,
                    confidence |-> state.plan.confidence,
                    workers |-> agentCount,
                    succeeded |-> successCount,
                    produced |-> Cardinality({ i \in 1..agentCount :
                                     rs[i].success /\ "degraded" \notin DOMAIN rs[i] }),
                    wrote |-> Range(modifiedFiles),
                    committed |-> Len(repo'.commits) > Len(repo.commits),
                    recorded |-> Len(st.milestones) > Len(state.milestones),
                    advanced |-> st.currentMilestone > state.currentMilestone,
                    retryBefore |-> state.retryCount,
                    retryAfter |-> st.retryCount,
                    phaseAfter |-> st.phase ])
    /\ pc' = "afterMilestone"
    /\ UNCHANGED << now, failoverVars >>

\* what the reviewer call of reviewCode ends with
ReviewOutcomes == { "output", "null", "allFailed" }

\* reviewCode(state)
reviewCode(outcome) ==
    /\ \/ pc = "review"
       \/ pc = "loop" /\ ~(state.currentMilestone < state.totalMilestones)
    /\ LET result == IF outcome = "allFailed" THEN AllFailedResult("reviewer")
                     ELSE [ success |-> TRUE ]
           threw == ~result.success \/ outcome = "null"
           st == [state EXCEPT !.phase = "testing",
                               !.degradedMode = IF threw THEN TRUE ELSE @]
       IN  /\ state' = st
           /\ checkpoint' = saveCheckpoint(st)
           /\ log' = Logged(Entry("reviewCode", TRUE))
    /\ pc' = "afterReview"
    /\ UNCHANGED << now, failoverVars, repo >>

\* how npm test ends: it passes, it fails, or it cannot be run
TestOutcomes == { "passed", "failed", "error" }

\* runTests(state)
runTests(outcome) ==
    /\ pc = "tests"
    /\ LET passed == outcome # "failed"
           st == [state EXCEPT !.testPassed = passed,
                               !.phase = "completed",
                               !.status = IF passed THEN "success" ELSE "tests_failed"]
       IN  /\ state' = st
           /\ checkpoint' = saveCheckpoint(st)
           /\ log' = Logged(Entry("runTests", passed))
    /\ pc' = "afterTests"
    /\ UNCHANGED << now, failoverVars, repo >>

\* gracefulShutdown(reason)
gracefulShutdown(st) ==
    [st EXCEPT !.phase = "interrupted", !.status = "interrupted"]

\* orchestrate: the statements between two handlers.  After analysis, planning
\* and review an exceeded deadline throws, which the catch block hands to
\* gracefulShutdown; in the milestone loop it breaks out of the loop.
CheckTimeout ==
    /\ pc \in { "afterAnalysis", "afterPlan", "afterMilestone", "afterReview" }
    /\ IF Deadline
           THEN /\ log' = [log EXCEPT !.deadlineAt = pc]
                /\ IF pc = "afterMilestone"
                       THEN /\ pc' = "review"
                            /\ UNCHANGED << state, checkpoint >>
                       ELSE /\ pc' = "exit"
                            /\ state' = gracefulShutdown(state)
                            /\ checkpoint' = saveCheckpoint(state')
           ELSE /\ pc' = CASE pc = "afterAnalysis" -> "plan"
                           [] pc = "afterPlan" -> "loop"
                           [] pc = "afterMilestone" -> "loop"
                           [] pc = "afterReview" -> "tests"
                /\ UNCHANGED << state, checkpoint, log >>
    /\ UNCHANGED << now, failoverVars, repo >>

\* orchestrate: the final save and the return
FinalSave ==
    /\ pc = "afterTests"
    /\ checkpoint' = saveCheckpoint(state)
    /\ pc' = "exit"
    /\ UNCHANGED << now, failoverVars, state, repo, log >>

NextOpencode ==
    \/ Clock
    \/ \E outcome \in AnalysisOutcomes : analyzeIdea(outcome)
    \/ \E outcome \in PlanOutcomes : createPlan(outcome)
    \/ \E outcomes \in OutcomeLists : implementMilestone(outcomes)
    \/ \E outcome \in ReviewOutcomes : reviewCode(outcome)
    \/ \E outcome \in TestOutcomes : runTests(outcome)
    \/ CheckTimeout
    \/ FinalSave

SpecOpencode == InitOpencode /\ [][NextOpencode]_vars


-----------------------------------------------------------------------------
(* Claims about orchestrate of scripts/orchestrator-opencode.js *)

\* the last handler invocation was implementMilestone, and it has returned
MilestoneAttempted == pc = "afterMilestone" /\ log.last.handler = "implementMilestone"

C12_CheckpointAfterEveryHandler ==
    pc \in AfterHandler => checkpoint = saveCheckpoint(state)

\* C13: once a check has found the deadline exceeded no handler is invoked any
\* more, and the run ends with the session checkpointed in phase 'interrupted'.
C13_NoHandlerAfterDeadline ==
    /\ log.late = {}
    /\ (pc = "exit" /\ log.deadlineAt # "none") => checkpoint.phase = "interrupted"

\* C17: implementMilestone is invoked at most maxRetries + 1 times for one
\* milestone index, each failed attempt increments retryCount, and after the
\* last permitted attempt has failed the session is blocked or failed.
C17_RetriesBounded ==
    /\ \A index \in DOMAIN log.attempts : log.attempts[index] <= state.maxRetries + 1
    /\ (MilestoneAttempted /\ ~log.last.returned) =>
           /\ log.last.retryAfter = log.last.retryBefore + 1
           /\ Attempts(log.last.milestone) > state.maxRetries =>
                  state.phase \in { "blocked", "failed" }

\* C19: implementMilestone is never invoked for a plan whose confidence is
\* below 0.5, and the session of such a plan ends blocked.
C19_LowConfidencePlanNotImplemented ==
    /\ log.last.handler = "implementMilestone" => log.last.confidence >= 50
    /\ (pc = "exit" /\ state.plan # Null /\ state.plan.confidence < 50) =>
           state.phase = "blocked"


-----------------------------------------------------------------------------
(* scripts/orchestrator-langgraph.js and scripts/orchestrator-openclaw.js:  *)
(* the graph orchestrators.  Both run the same nodes and routers; LangGraph *)
(* merges the update a node returns into the state through the reducers of *)
(* AutonomousDevState, the OpenClaw nodes return the merged state           *)
(* themselves.  A null number is 0 or -1, a null string is "".              *)

\* steps of one run
MaxSteps == 8

\* TIMEOUT_MS of the graph orchestrators, in units of the clock
GRAPH_TIMEOUT_MS == 2

\* { ...a, ...b }
Spread(a, b) ==
    [k \in DOMAIN a \cup DOMAIN b |-> IF k \in DOMAIN b THEN b[k] ELSE a[k]]

\* AutonomousDevState: the channels whose reducer appends, and the one whose
\* reducer is a set union
AppendChannels == { "milestones", "conflicts", "errors" }

UnionChannels == { "modifiedFiles" }

\* the state after LangGraph has applied a node's update
Reduce(st, update) ==
    [k \in DOMAIN st |->
        IF k \notin DOMAIN update THEN st[k]
        ELSE IF k \in AppendChannels THEN st[k] \o update[k]
        ELSE IF k \in UnionChannels THEN st[k] \cup update[k]
        ELSE update[k]]

\* main: initialState, with the defaults of the state schema
InitialState(ideaId) ==
    [ ideaId |-> ideaId,
      phase |-> "initializing",
      status |-> "pending",
      plan |-> Null,
      planApproved |-> FALSE,
      needsUserInput |-> FALSE,
      currentMilestone |-> 0,
      totalMilestones |-> 0,
      milestones |-> << >>,
      modifiedFiles |-> {},
      conflicts |-> << >>,
      errors |-> << >>,
      retryCount |-> 0,
      maxRetries |-> maxRetries,
      lastError |-> "",
      blockingIssue |-> 0,
      testPassed |-> FALSE,
      rollbackPoint |-> -1,
      timeoutAt |-> 0,
      progress |-> 0 ]

\* loadStateNode without the reset of retryCount
loadStateNodeKeepingRetryCount(st, file, RESUME, t) ==
    IF file # Null /\ RESUME
        THEN Spread(file, [ timeoutAt |-> t + GRAPH_TIMEOUT_MS ])
        ELSE [ phase |-> "initializing", timeoutAt |-> t + GRAPH_TIMEOUT_MS, progress |-> 0 ]

\* loadStateNode of orchestrator-langgraph.js: the update it returns.  file is
\* what loadCheckpoint(sessionId) returns, RESUME is process.env.RESUME === 'true'
loadStateNode(st, file, RESUME, t) ==
    IF file # Null /\ RESUME
        THEN Spread(file, [ retryCount |-> 0, timeoutAt |-> t + GRAPH_TIMEOUT_MS ])
        ELSE [ phase |-> "initializing", timeoutAt |-> t + GRAPH_TIMEOUT_MS, progress |-> 0 ]

\* loadStateNode of orchestrator-openclaw.js: the state it returns
loadStateNodeOpenclaw(st, file, RESUME, t) ==
    IF file # Null /\ RESUME
        THEN Spread(file, [ retryCount |-> 0, timeoutAt |-> t + GRAPH_TIMEOUT_MS ])
        ELSE Spread(st, [ phase |-> "initializing", timeoutAt |-> t + GRAPH_TIMEOUT_MS,
                          progress |-> 0 ])

\* routeAfterLoad of orchestrator-langgraph.js
routeAfterLoad(st) ==
    IF st.phase = "completed" THEN "end"
    ELSE IF st.phase = "blocked" THEN "human_clarification"
    ELSE IF ~st.ideaId THEN "analyze_idea"
    ELSE st.phase

\* routeAfterLoad of orchestrator-openclaw.js
routeAfterLoadOpenclaw(st) ==
    IF st.phase = "completed" THEN "end"
    ELSE IF st.phase = "blocked" THEN "human_clarification"
    ELSE IF ~st.ideaId \/ st.phase = "initializing" THEN "analyze_idea"
    ELSE st.phase

routeAfterAnalysis(st) ==
    IF Len(st.errors) > 0 /\ st.retryCount < st.maxRetries THEN "analyze_idea"
    ELSE IF st.needsUserInput THEN "human_clarification"
    ELSE st.phase

routeAfterPlan(st) ==
    IF st.retryCount < st.maxRetries /\ st.plan = Null THEN "plan"
    ELSE IF st.needsUserInput \/ ~st.planApproved THEN "human_clarification"
    ELSE "parallel_implementation"

routeAfterImplementation(st) ==
    IF Len(st.conflicts) > 0 THEN "human_clarification"
    ELSE IF Len(st.errors) > 0 THEN "handle_error"
    ELSE IF st.phase = "implementing" THEN "parallel_implementation"
    ELSE "review_code"

routeAfterReview(st) ==
    IF st.needsUserInput THEN "human_clarification" ELSE "test"

routeAfterTest(st) ==
    IF ~st.testPassed /\ st.needsUserInput THEN "human_clarification" ELSE "end"

routeAfterError(st) ==
    IF st.retryCount < st.maxRetries THEN st.phase ELSE "human_clarification"


\* a comparison with a confidence that may be undefined (-1) is false then
AtLeast(confidence, bound) == confidence # -1 /\ confidence >= bound

Below(confidence, bound) == confidence # -1 /\ confidence < bound

\* the messages runOpenClawAgent rejects with
AgentErrors == { "Agent timeout", "No valid JSON in output" }

\* what the agent call of analyzeIdeaNode ends with
GraphAnalysisOutcomes ==
    [ kind : { "output" }, requires_planning : BOOLEAN, questions : BOOLEAN,
      confidence : { 50, 90 } ]
        \cup [ kind : { "error" }, message : AgentErrors ]

analyzeIdeaNode(st, outcome) ==
    IF outcome.kind = "output"
        THEN [ totalMilestones |-> 3,
               needsUserInput |-> outcome.questions /\ outcome.confidence < 70,
               phase |-> IF outcome.requires_planning THEN "planning" ELSE "implementing" ]
        ELSE [ errors |-> << [ node |-> "analyze_idea", error |-> outcome.message ] >>,
               lastError |-> outcome.message,
               retryCount |-> st.retryCount + 1 ]

\* the plans the agent of planNode returns: the confidence may be missing
\* (-1), and so may the list of risks
GraphPlans ==
    { [ milestones |-> [i \in 1..n |-> [ name |-> MilestoneNames[i], files |-> files ]],
        confidence |-> c,
        risks |-> risks ] :
        n \in 1..MaxMilestones,
        files \in FileCounts,
        c \in Confidences \cup { -1 },
        risks \in BOOLEAN }

\* what the agent call of planNode ends with; a plan without milestones is
\* the error 'No milestones in plan'
GraphPlanOutcomes ==
    [ kind : { "output" }, plan : GraphPlans ]
        \cup [ kind : { "error" }, message : AgentErrors \cup { "No milestones in plan" } ]

\* planNode throws inside its try block: the agent's error, or
\* plan.risks.join of a plan without risks
PlanError(outcome) ==
    IF outcome.kind = "error" THEN outcome.message
    ELSE IF Below(outcome.plan.confidence, 80) /\ ~outcome.plan.risks THEN "TypeError"
    ELSE ""

planNode(st, outcome) ==
    IF PlanError(outcome) = ""
        THEN [ plan |-> outcome.plan,
               planApproved |-> AtLeast(outcome.plan.confidence, 80),
               phase |-> IF AtLeast(outcome.plan.confidence, 80) THEN "implementing"
                                                                     ELSE "planning",
               needsUserInput |-> Below(outcome.plan.confidence, 80),
               totalMilestones |-> Len(outcome.plan.milestones) ]
    ELSE IF st.retryCount < st.maxRetries
        THEN [ lastError |-> PlanError(outcome), retryCount |-> st.retryCount + 1 ]
    ELSE [ errors |-> << [ node |-> "plan", error |-> PlanError(outcome) ] >>,
           phase |-> "failed",
           status |-> "error" ]

\* calculateProgress(state)
calculateProgress(st) ==
    LET phaseWeights == [ initializing |-> 5, planning |-> 15, implementing |-> 60,
                          reviewing |-> 15, testing |-> 5, deploying |-> 5,
                          completed |-> 100 ]
        progress == IF st.phase = "implementing" /\ st.totalMilestones > 0
                        THEN 15 + Round(60 * st.currentMilestone, st.totalMilestones)
                    ELSE IF st.phase \in DOMAIN phaseWeights THEN phaseWeights[st.phase]
                    ELSE 0
    IN  Min(100, progress)

\* parallelImplementationNode: the files of agent i (from 0)
GraphAgentFiles(allFiles, i) ==
    LET agentCount == Min(3, Ceil(Len(allFiles), 2))
        filesPerAgent == Ceil(Len(allFiles), agentCount)
    IN  SubSeq(allFiles, i * filesPerAgent + 1, Min((i + 1) * filesPerAgent, Len(allFiles)))

\* what a worker's runOpenClawAgent call ends with
GraphWorkerOutcomes == { "output", "failed" }

\* git.rollback(commitHash): stash, then reset --hard
rollback(r, commitHash) ==
    [r EXCEPT !.worktree = {}, !.commits = SubSeq(@, 1, commitHash)]

\* the statements of parallelImplementationNode before its try block throw
\* when there is no plan or no milestone at currentMilestone
ImplementationThrows(st) ==
    st.plan = Null \/ st.currentMilestone >= Len(st.plan.milestones)

\* parallelImplementationNode(state): the update it returns, the repository
\* and the checkpoint file it leaves
parallelImplementationNode(st, r, file, outcomes, conflict) ==
    LET milestone == st.plan.milestones[st.currentMilestone + 1]
        rollbackPoint == Len(r.commits)
        allFiles == AllFiles(st.currentMilestone, milestone)
        agentCount == AgentCount(milestone)
        failures == { i \in 1..agentCount : outcomes[i] = "failed" }
        modifiedFiles == UNION { Range(GraphAgentFiles(allFiles, i - 1)) : i \in 1..agentCount }
        written == [r EXCEPT !.worktree = @ \cup modifiedFiles]
        committed == Spread(written, commitAll(written, milestone.name))
    IN  IF failures # {}
            THEN [ update |-> [ errors |-> << [ node |-> "parallel_implementation",
                                                error |-> "agents failed" ] >>,
                                lastError |-> "agents failed",
                                retryCount |-> st.retryCount + 1,
                                phase |-> IF st.retryCount + 1 >= st.maxRetries
                                              THEN "failed" ELSE "implementing" ],
                   repo |-> IF st.rollbackPoint # -1 THEN rollback(r, st.rollbackPoint) ELSE r,
                   file |-> file ]
        ELSE IF conflict
            THEN [ update |-> [ conflicts |-> << allFiles[1] >>,
                                phase |-> "blocked",
                                needsUserInput |-> TRUE ],
                   repo |-> written,
                   file |-> file ]
        ELSE [ update |-> [ modifiedFiles |-> modifiedFiles,
                            rollbackPoint |-> rollbackPoint,
                            currentMilestone |-> st.currentMilestone + 1,
                            phase |-> IF st.currentMilestone + 1 >= st.totalMilestones
                                          THEN "reviewing" ELSE "implementing",
                            progress |-> calculateProgress(st) ],
               repo |-> committed,
               \* orchestrator-openclaw.js saves [...state.milestones, record] and
               \* [...state.modifiedFiles, ...modifiedFiles]
               file |-> LET record == [ name |-> milestone.name,
                                        commit |-> Len(committed.commits) ]
                            openclaw == log.script = "openclaw"
                        IN  Spread(st, [ currentMilestone |-> st.currentMilestone + 1,
                                         milestones |-> IF openclaw
                                                            THEN Append(st.milestones, record)
                                                            ELSE << record >>,
                                         modifiedFiles |-> IF openclaw
                                                               THEN st.modifiedFiles \cup modifiedFiles
                                                               ELSE modifiedFiles ]) ]


ReviewVerdicts == { "approved", "rejected", "error" }

reviewCodeNode(st, outcome) ==
    CASE outcome = "approved" -> [ phase |-> "testing" ]
      [] outcome = "rejected" -> [ phase |-> "blocked", needsUserInput |-> TRUE ]
      [] OTHER -> [ errors |-> << [ node |-> "review_code", error |-> "Agent timeout" ] >>,
                    phase |-> "testing" ]

testNode(st, outcome) ==
    IF outcome = "failed"
        THEN [ testPassed |-> FALSE, phase |-> "blocked", needsUserInput |-> TRUE ]
        ELSE [ testPassed |-> TRUE, phase |-> "completed", status |-> "success" ]

\* handleErrorNode: retryablePatterns.some(p => p.test(lastError)), on the
\* messages of the model
IsRetryable(lastError) == lastError = "Agent timeout"

\* handleErrorNode retries without creating an issue
ErrorRetried(st) == IsRetryable(st.lastError) /\ st.retryCount < st.maxRetries

\* how IssueTracker.create ends: it returns the issue or it throws
IssueOutcomes == { "created", "failed" }

\* handleErrorNode(state), when issues.create does not throw
handleErrorNode(st, number) ==
    IF ErrorRetried(st)
        THEN [ retryCount |-> st.retryCount + 1 ]
        ELSE [ phase |-> "failed", status |-> "error", blockingIssue |-> number,
               needsUserInput |-> TRUE ]

\* humanClarificationNode(state), when issues.create does not throw
humanClarificationNode(st, number) ==
    [ blockingIssue |-> number, phase |-> "blocked", status |-> "waiting_user" ]

\* createAutonomousDevGraph: the conditional edges of each node
Edges ==
    [ load_state |-> [ analyze_idea |-> "analyze_idea", planning |-> "plan",
                       implementing |-> "parallel_implementation",
                       reviewing |-> "review_code", testing |-> "test",
                       blocked |-> "human_clarification", end |-> "END" ],
      analyze_idea |-> [ analyze_idea |-> "analyze_idea", planning |-> "plan",
                         implementing |-> "parallel_implementation",
                         human_clarification |-> "human_clarification" ],
      plan |-> [ plan |-> "plan", parallel_implementation |-> "parallel_implementation",
                 human_clarification |-> "human_clarification" ],
      parallel_implementation |->
          [ parallel_implementation |-> "parallel_implementation",
            review_code |-> "review_code", handle_error |-> "handle_error",
            human_clarification |-> "human_clarification" ],
      review_code |-> [ test |-> "test", human_clarification |-> "human_clarification" ],
      test |-> [ human_clarification |-> "human_clarification", end |-> "END" ],
      handle_error |-> [ planning |-> "plan", implementing |-> "parallel_implementation",
                         reviewing |-> "review_code", testing |-> "test",
                         human_clarification |-> "human_clarification" ] ]

\* the router of a node
Route(node, st) ==
    CASE node = "load_state" -> routeAfterLoad(st)
      [] node = "analyze_idea" -> routeAfterAnalysis(st)
      [] node = "plan" -> routeAfterPlan(st)
      [] node = "parallel_implementation" -> routeAfterImplementation(st)
      [] node = "review_code" -> routeAfterReview(st)
      [] node = "test" -> routeAfterTest(st)
      [] node = "handle_error" -> routeAfterError(st)

\* The node LangGraph runs after node: the destination the edge map gives for
\* the router's value.  A value the map does not name makes the run throw.
Destination(node, st) ==
    IF node = "human_clarification" THEN "END"
    ELSE IF Route(node, st) \in DOMAIN Edges[node] THEN Edges[node][Route(node, st)]
    ELSE "threw"

\* runOpenClawOrchestrator: the node that runs next when nextStep has been
\* computed and the steps before step have been passed
RECURSIVE FromStep(_, _, _)
FromStep(step, nextStep, st) ==
    CASE step = 2 -> IF nextStep = "analyze_idea" THEN "analyze_idea"
                     ELSE FromStep(3, nextStep, st)
      [] step = 3 -> IF nextStep = "planning" THEN "plan" ELSE FromStep(4, nextStep, st)
      [] step = 4 -> IF nextStep = "parallel_implementation"
                            /\ st.currentMilestone < st.totalMilestones
                         THEN "parallel_implementation"
                         ELSE FromStep(5, nextStep, st)
      [] step = 5 -> IF nextStep = "review_code" THEN "review_code"
                     ELSE FromStep(6, nextStep, st)
      [] step = 6 -> IF nextStep = "test" THEN "test" ELSE FromStep(7, nextStep, st)
      [] OTHER -> IF nextStep = "human_clarification" THEN "human_clarification"
                  ELSE "END"

\* runOpenClawOrchestrator: the node that runs after node has returned st.
\* Inside the while loop handle_error and human_clarification run in the loop
\* body; the loop's human_clarification is followed by a break.
OpenclawNext(node, st) ==
    CASE node = "load_state" ->
            IF routeAfterLoadOpenclaw(st) = "end" THEN "END"
            ELSE FromStep(2, routeAfterLoadOpenclaw(st), st)
      [] node = "analyze_idea" -> FromStep(3, routeAfterAnalysis(st), st)
      [] node = "plan" -> FromStep(4, routeAfterPlan(st), st)
      [] node = "parallel_implementation" ->
            IF routeAfterImplementation(st) = "handle_error" THEN "loop_handle_error"
            ELSE IF routeAfterImplementation(st) = "human_clarification"
                THEN "loop_human_clarification"
            ELSE FromStep(4, routeAfterImplementation(st), st)
      [] node = "loop_handle_error" ->
            IF routeAfterError(st) = st.phase THEN FromStep(4, routeAfterError(st), st)
            ELSE IF routeAfterError(st) = "human_clarification"
                THEN "loop_human_clarification"
            ELSE FromStep(4, routeAfterError(st), st)
      [] node = "loop_human_clarification" -> FromStep(5, "human_clarification", st)
      [] node = "review_code" -> FromStep(6, routeAfterReview(st), st)
      [] node = "test" -> FromStep(7, routeAfterTest(st), st)
      [] OTHER -> "END"


\* the phases a checkpoint file is written in
CheckpointPhases ==
    { "planning", "implementing", "reviewing", "testing", "blocked", "failed",
      "completed" }

\* an approved plan of n milestones
ApprovedPlan(n) ==
    [ milestones |-> [i \in 1..n |-> [ name |-> MilestoneNames[i], files |-> 2 ]],
      confidence |-> 90,
      risks |-> TRUE ]

\* the milestones done when a checkpoint is written in phase
MilestonesDone(phase) ==
    CASE phase = "planning" -> { 0 }
      [] phase \in { "implementing", "failed" } -> 0..(MaxMilestones - 1)
      [] phase = "blocked" -> 0..MaxMilestones
      [] OTHER -> { MaxMilestones }

\* The checkpoint files an earlier run of the session may have left.  A
\* checkpoint of phase failed is written after handleErrorNode (with its issue)
\* or after the catch of parallelImplementationNode (with none).
CheckpointFiles ==
    { Spread(InitialState(TRUE),
             [ phase |-> at[1],
               plan |-> ApprovedPlan(MaxMilestones),
               planApproved |-> TRUE,
               currentMilestone |-> at[2],
               totalMilestones |-> MaxMilestones,
               modifiedFiles |-> { << i - 1, f >> : i \in 1..at[2], f \in 1..2 },
               rollbackPoint |-> at[2] - 1,
               retryCount |-> retryCount,
               errors |-> errors,
               blockingIssue |-> at[3],
               timeoutAt |-> GRAPH_TIMEOUT_MS ]) :
        at \in { << phase, k, issue >> \in
                        CheckpointPhases \X (0..MaxMilestones) \X { 0, 1 } :
                    /\ k \in MilestonesDone(phase)
                    /\ issue = 1 => phase = "failed" },
        retryCount \in { 0, 2 },
        errors \in { << >>, << [ node |-> "review_code", error |-> "Agent timeout" ] >> } }

\* the repository the run starts in: the commits of the milestones done
RepoOf(file) ==
    [ worktree |-> {},
      commits |-> IF file = Null THEN << >>
                  ELSE [i \in 1..file.currentMilestone |->
                           [ message |-> MilestoneNames[i],
                             files |-> { << i - 1, f >> : f \in 1..2 } ]],
      issues |-> IF file = Null THEN 0 ELSE file.blockingIssue,
      \* the issues that exist when the run starts
      before |-> IF file = Null THEN 0 ELSE file.blockingIssue ]

Scripts == { "langgraph", "openclaw" }

\* One of the two orchestrators is started for a session, with or without an
\* idea id, and with or without a checkpoint file of the session.
InitGraph ==
    /\ InitFailover({ TRUE })
    /\ \E ideaId \in BOOLEAN : state = InitialState(ideaId)
    /\ pc = "load_state"
    /\ checkpoint \in { Null } \cup CheckpointFiles
    /\ repo = RepoOf(checkpoint)
    /\ \E script \in Scripts :
           log = [ script |-> script,   \* the orchestrator that runs
                   steps |-> 0,         \* the nodes run
                   nodes |-> << >>,     \* the nodes run, in order, and how each ended
                   resumed |-> FALSE ]  \* loadStateNode took the checkpoint

\* the run goes on after node has returned update
NodeReturned(node, update, outcome) ==
    /\ state' = Reduce(state, update)
    /\ pc' = IF log.script = "langgraph" THEN Destination(node, state')
             ELSE OpenclawNext(pc, state')
    /\ log' = [log EXCEPT !.steps = @ + 1, !.nodes = Append(@, << node, outcome >>)]

\* node throws: the exception leaves the graph
Threw(node) ==
    /\ pc' = "threw"
    /\ log' = [log EXCEPT !.steps = @ + 1, !.nodes = Append(@, << node, "threw" >>)]
    /\ UNCHANGED state

Runs(node) ==
    /\ log.steps < MaxSteps
    /\ pc \in { node, "loop_" \o node }


\* load_state
LoadState(RESUME) ==
    /\ Runs("load_state")
    /\ state' = IF log.script = "langgraph"
                    THEN Reduce(state, loadStateNode(state, checkpoint, RESUME, now))
                    ELSE loadStateNodeOpenclaw(state, checkpoint, RESUME, now)
    /\ pc' = IF log.script = "langgraph" THEN Destination("load_state", state')
             ELSE OpenclawNext("load_state", state')
    /\ log' = [log EXCEPT !.steps = @ + 1,
                          !.nodes = Append(@, << "load_state", "ok" >>),
                          !.resumed = checkpoint # Null /\ RESUME]
    /\ UNCHANGED << now, failoverVars, checkpoint, repo >>

\* analyze_idea
AnalyzeIdea(outcome) ==
    /\ Runs("analyze_idea")
    /\ NodeReturned("analyze_idea", analyzeIdeaNode(state, outcome),
                    IF outcome.kind = "output" THEN "ok" ELSE "error")
    /\ UNCHANGED << now, failoverVars, checkpoint, repo >>

\* plan: a plan with milestones is saved before planNode builds its update
Plan(outcome) ==
    /\ Runs("plan")
    /\ NodeReturned("plan", planNode(state, outcome),
                    IF PlanError(outcome) = "" THEN "ok" ELSE "error")
    /\ checkpoint' = IF outcome.kind = "output"
                         THEN Spread(state, [ plan |-> outcome.plan, phase |-> "planning" ])
                         ELSE checkpoint
    /\ UNCHANGED << now, failoverVars, repo >>

\* parallel_implementation
ParallelImplementation(outcomes, conflict) ==
    /\ Runs("parallel_implementation")
    /\ IF ImplementationThrows(state)
           THEN /\ outcomes = << >> /\ ~conflict
                /\ Threw("parallel_implementation")
                /\ UNCHANGED << checkpoint, repo >>
           ELSE LET milestone == state.plan.milestones[state.currentMilestone + 1]
                    failed == \E i \in DOMAIN outcomes : outcomes[i] = "failed"
                    node == parallelImplementationNode(state, repo, checkpoint,
                                                       outcomes, conflict)
                IN  /\ DOMAIN outcomes = 1..AgentCount(milestone)
                    /\ failed => ~conflict
                    /\ NodeReturned("parallel_implementation", node.update,
                                    IF failed THEN "error" ELSE "ok")
                    /\ repo' = node.repo
                    /\ checkpoint' = node.file
    /\ UNCHANGED << now, failoverVars >>

\* review_code
ReviewCode(outcome) ==
    /\ Runs("review_code")
    /\ NodeReturned("review_code", reviewCodeNode(state, outcome),
                    IF outcome = "error" THEN "error" ELSE "ok")
    /\ UNCHANGED << now, failoverVars, checkpoint, repo >>

\* test
Test(outcome) ==
    /\ Runs("test")
    /\ NodeReturned("test", testNode(state, outcome), "ok")
    /\ UNCHANGED << now, failoverVars, checkpoint, repo >>

\* handle_error: it retries, or it creates an issue, which may throw
HandleError(issue) ==
    /\ Runs("handle_error")
    /\ IF ErrorRetried(state)
           THEN /\ issue = "created"
                /\ NodeReturned("handle_error", handleErrorNode(state, 0), "ok")
                /\ UNCHANGED repo
           ELSE IF issue = "failed"
               THEN Threw("handle_error") /\ UNCHANGED repo
               ELSE /\ NodeReturned("handle_error",
                                    handleErrorNode(state, repo.issues + 1), "ok")
                    /\ repo' = [repo EXCEPT !.issues = @ + 1]
    /\ UNCHANGED << now, failoverVars, checkpoint >>

\* human_clarification: it creates an issue, which may throw
HumanClarification(issue) ==
    /\ Runs("human_clarification")
    /\ IF issue = "failed"
           THEN Threw("human_clarification") /\ UNCHANGED repo
           ELSE /\ NodeReturned("human_clarification",
                                humanClarificationNode(state, repo.issues + 1), "ok")
                /\ repo' = [repo EXCEPT !.issues = @ + 1]
    /\ UNCHANGED << now, failoverVars, checkpoint >>

NextGraph ==
    \/ \E RESUME \in BOOLEAN : LoadState(RESUME)
    \/ \E outcome \in GraphAnalysisOutcomes : AnalyzeIdea(outcome)
    \/ \E outcome \in GraphPlanOutcomes : Plan(outcome)
    \/ \E outcomes \in UNION { [1..k -> GraphWorkerOutcomes] : k \in 0..3 },
          conflict \in BOOLEAN : ParallelImplementation(outcomes, conflict)
    \/ \E outcome \in ReviewVerdicts : ReviewCode(outcome)
    \/ \E outcome \in TestOutcomes : Test(outcome)
    \/ \E issue \in IssueOutcomes : HandleError(issue)
    \/ \E issue \in IssueOutcomes : HumanClarification(issue)

SpecGraph == InitGraph /\ [][NextGraph]_vars


\* time passes before the orchestrator is started
Wait ==
    /\ pc = "load_state"
    /\ now < MaxTime
    /\ now' = now + 1
    /\ UNCHANGED << failoverVars, orchVars >>

\* loadStateNode applied to every session, checkpoint file and start time
NextResume ==
    \/ Wait
    \/ \E RESUME \in BOOLEAN : LoadState(RESUME)

SpecResume == InitGraph /\ [][NextResume]_vars

\* loadStateNode has returned and no other node has run
Loaded == log.steps = 1 /\ log.nodes[1][1] = "load_state"

\* C14: when a checkpoint exists and resume is requested, loadStateNode of
\* either orchestrator gives the checkpointed session with retryCount 0 and
\* timeoutAt = now + the budget, every other field as in the checkpoint;
\* otherwise it starts a new session in phase 'initializing'.
C14_LoadStateResumes ==
    Loaded =>
        IF log.resumed
            THEN /\ state.retryCount = 0
                 /\ state.timeoutAt = now + GRAPH_TIMEOUT_MS
                 /\ DOMAIN state = DOMAIN checkpoint
                 /\ \A k \in DOMAIN checkpoint \ { "retryCount", "timeoutAt" } :
                        state[k] = checkpoint[k]
            ELSE /\ state.phase = "initializing"
                 /\ state.timeoutAt = now + GRAPH_TIMEOUT_MS

C14_Witness ==
    /\ Loaded
    /\ log.resumed
    /\ checkpoint.retryCount > 0
    /\ checkpoint.errors # << >>
    /\ checkpoint.timeoutAt # now + GRAPH_TIMEOUT_MS
    /\ checkpoint.phase = "implementing"

\* C15: on resume runOpenClawOrchestrator runs next the handler of the
\* persisted phase: parallelImplementationNode for 'implementing' with
\* currentMilestone < totalMilestones, reviewCodeNode for 'reviewing',
\* testNode for 'testing'.
C15_ResumeReentersAtPhase ==
    (Loaded /\ log.script = "openclaw" /\ log.resumed) =>
        /\ (checkpoint.phase = "implementing"
                /\ checkpoint.currentMilestone < checkpoint.totalMilestones) =>
               /\ pc = "parallel_implementation"
               /\ state.currentMilestone = checkpoint.currentMilestone
        /\ checkpoint.phase = "reviewing" => pc = "review_code"
        /\ checkpoint.phase = "testing" => pc = "test"

\* the runs of node, in order
RunsOf(node) == SelectSeq(log.nodes, LAMBDA n : n[1] = node)

\* the runs that ended in an error the node caught
Failures == SelectSeq(log.nodes, LAMBDA n : n[2] = "error")

\* the planner failed every time planNode asked it, and nothing else failed
PlannerAlwaysFailed ==
    /\ log.script = "langgraph"
    /\ ~log.resumed
    /\ RunsOf("plan") # << >>
    /\ Failures = RunsOf("plan")

\* C16: with maxRetries = 3 a planNode that keeps failing fails 4 times, and
\* the run ends blocked with retryCount 3 and 4 errors.
C16_PlanFailsFourTimes ==
    (PlannerAlwaysFailed /\ pc = "END") =>
        /\ Len(RunsOf("plan")) = maxRetries + 1
        /\ state.phase = "blocked"
        /\ state.retryCount = maxRetries
        /\ Len(state.errors) = maxRetries + 1

\* planNode has returned a plan of confidence below 0.8, or of none
LowConfidencePlan ==
    /\ log.script = "langgraph"
    /\ << "plan", "ok" >> \in Range(log.nodes)
    /\ state.plan # Null
    /\ ~AtLeast(state.plan.confidence, 80)

\* C18: a plan of confidence below 0.8 or of none is not implemented: the run
\* does not execute parallelImplementationNode and ends blocked through
\* human_clarification.
C18_LowConfidencePlanBlocked ==
    LowConfidencePlan =>
        /\ RunsOf("parallel_implementation") = << >>
        /\ pc \in { "END", "threw" } =>
               /\ pc = "END"
               /\ Last(log.nodes) = << "human_clarification", "ok" >>
               /\ state.phase = "blocked"

\* C20: no node of the langgraph graph lets an exception escape, and the run
\* ends completed, blocked or failed.
C20_NoRawException ==
    log.script = "langgraph" =>
        /\ \A i \in DOMAIN log.nodes : log.nodes[i][2] # "threw"
        /\ pc = "END" => state.phase \in { "completed", "blocked", "failed" }


\* runOpenClawOrchestrator has returned its state
OpenclawReturned == log.script = "openclaw" /\ pc = "END"

\* C21: runOpenClawOrchestrator drops no session: a handler that fails with
\* retryCount < maxRetries is the handler invoked next, and the state returned
\* has phase completed, blocked or failed.
C21_NoSessionDropped ==
    log.script = "openclaw" =>
        /\ (log.nodes # << >> /\ Last(log.nodes)[2] = "error"
                /\ state.retryCount < state.maxRetries) =>
               pc \in { Last(log.nodes)[1], "threw" }
        /\ pc = "END" => state.phase \in { "completed", "blocked", "failed" }

ImplementationReturns ==
    /\ pc \in { "parallel_implementation" }
    /\ pc' # "threw"
    /\ log'.steps = log.steps + 1

\* ... with the conflicts its scan found
ConflictFound == ImplementationReturns /\ Len(state'.conflicts) > Len(state.conflicts)

\* ... from its catch block: the milestone is rejected
MilestoneRejected == ImplementationReturns /\ Len(state'.errors) > Len(state.errors)

\* C25: in the langgraph parallelImplementationNode the conflict scan comes
\* before any file is applied: with a conflict found no produced file is in
\* the working tree, no commit is made and the session becomes blocked.
C25_ConflictScanBeforeApply ==
    [][(log.script = "langgraph" /\ ConflictFound) =>
           /\ repo'.worktree = repo.worktree
           /\ repo'.commits = repo.commits
           /\ state'.phase = "blocked"]_vars

\* C26: when milestone k is rejected the tree is reset to the revision captured
\* at the start of milestone k's attempt: the commits of milestones 0..k-1 are
\* still in the history and their number equals currentMilestone.
C26_RollbackKeepsEarlierMilestones ==
    [][MilestoneRejected =>
           /\ repo'.commits = repo.commits
           /\ repo'.worktree = {}
           /\ Len(repo'.commits) = state'.currentMilestone]_vars


\* C27: in orchestrate, currentMilestone never decreases, increases by exactly
\* 1 and only in a step that commits the milestone, and never exceeds
\* totalMilestones.
C27_MilestoneIndexMonotonic ==
    [][/\ state'.currentMilestone >= state.currentMilestone
       /\ state'.currentMilestone <= state'.totalMilestones
       /\ state'.currentMilestone > state.currentMilestone =>
              /\ state'.currentMilestone = state.currentMilestone + 1
              /\ Len(repo'.commits) = Len(repo.commits) + 1]_vars


-----------------------------------------------------------------------------
(* The skip of an OPEN candidate, under Spec *)

\* the models the call in slot c skips in this step
NewSkips(c) ==
    LET before == IF calls[c].kind = "failover" THEN calls[c].skipped ELSE << >>
        after == IF calls'[c].kind = "failover" THEN calls'[c].skipped
                 ELSE IF returned' # returned /\ returned'.kind = "failover"
                     THEN returned'.skipped
                 ELSE before
    IN  { after[j].model : j \in (Len(before) + 1)..Len(after) }

\* a skipped candidate is not invoked, has no errors entry and no backoff
SkipsConsumeNothing ==
    \A r \in FailoverRecords : \A j \in 1..Len(r.skipped) :
        LET model == r.skipped[j].model
        IN  /\ model \notin Range(r.invoked)
            /\ \A k \in 1..Len(r.errors) : r.errors[k].model # model
            /\ Position(r.agentType, model) \notin Range(r.backoffs)

\* C30: executeWithFailover skips a candidate whose breaker is OPEN without
\* consuming anything: the model is not invoked, no backoff wait happens, no
\* failure is recorded against its breaker, no entry is appended to errors.
C30_SkipConsumesNothing ==
    /\ []SkipsConsumeNothing
    /\ [][\A c \in FSlots : \A model \in NewSkips(c) :
              MapGetOr(circuitBreaker'.failures, model, << >>)
                  = MapGetOr(circuitBreaker.failures, model, << >>)]_vars

\* a call has skipped an OPEN candidate and invoked a later one
C30_Witness ==
    \E r \in FailoverRecords :
        /\ Returned(r)
        /\ r.skipped # << >>
        /\ \E j \in 1..Len(r.invoked) :
               Position(r.agentType, r.invoked[j]) > Position(r.agentType, r.skipped[1].model)


-----------------------------------------------------------------------------
(* The milestone fan-out of implementMilestone (orchestrator-opencode.js) and
   of parallelImplementationNode (orchestrator-langgraph.js), await by await *)

\* the most target files (create + modify) of a milestone
MaxFiles == 7

FanOutScripts == { "opencode", "langgraph" }

\* the agentFiles of the workers the for loop dispatches
Partition(script, allFiles) ==
    LET agentCount == Min(3, Ceil(Len(allFiles), 2))
        slices == [i \in 1..agentCount |->
                      IF script = "opencode" THEN AgentFiles(allFiles, i - 1)
                      ELSE GraphAgentFiles(allFiles, i - 1)]
    IN  SelectSeq(slices, LAMBDA agentFiles : Len(agentFiles) # 0)

\* how the call of a worker ends
AgentOutcomes == { "resolved", "rejected" }

\* The promise pushed to agentPromises once the worker's call has ended.  In
\* opencode the call is executeWithFailover('coder'), which resolves with the
\* degraded coder's note when every model failed; in langgraph the .then and
\* .catch handlers turn either end into a result.
Wrapped(script, outcome) ==
    IF script = "opencode"
        THEN [ status |-> "fulfilled", success |-> TRUE, degraded |-> outcome = "rejected" ]
        ELSE [ status |-> "fulfilled", success |-> outcome = "resolved", degraded |-> FALSE ]

\* a promise that settles as soon as one worker has a result
PromiseAny(agentPromises) ==
    IF agentPromises = << >> THEN "fulfilled"
    ELSE IF \E i \in DOMAIN agentPromises : agentPromises[i].status = "fulfilled"
        THEN "fulfilled"
    ELSE IF \A i \in DOMAIN agentPromises : agentPromises[i].status = "rejected"
        THEN "rejected"
    ELSE "pending"

\* Promise.all(agentPromises)
PromiseAll(agentPromises) ==
    IF \E i \in DOMAIN agentPromises : agentPromises[i].status = "rejected"
        THEN "rejected"
    ELSE IF \A i \in DOMAIN agentPromises : agentPromises[i].status = "fulfilled"
        THEN "fulfilled"
    ELSE "pending"

InitFanOut ==
    /\ InitFailover({ TRUE })
    /\ \E script \in FanOutScripts, n \in 0..MaxFiles :
           state = [ script |-> script,
                     allFiles |-> AllFiles(0, [ files |-> n ]),
                     agentPromises |-> << >>,
                     applied |-> 0 ]      \* the results whose files are written
    /\ pc = "dispatch"
    /\ checkpoint = Null
    /\ repo = [ worktree |-> {}, commits |-> << >> ]
    /\ log = << >>

\* the for loop: every worker call is started, none is awaited
Dispatch ==
    /\ pc = "dispatch"
    /\ state' = [state EXCEPT !.agentPromises =
                    [i \in DOMAIN Partition(state.script, state.allFiles) |->
                        [ agentFiles |-> Partition(state.script, state.allFiles)[i],
                          status |-> "pending", success |-> FALSE, degraded |-> FALSE ]]]
    /\ pc' = "await"
    /\ UNCHANGED << now, failoverVars, checkpoint, repo, log >>

\* the call of worker i ends
AgentSettles(i, outcome) ==
    /\ pc \notin { "dispatch" }
    /\ i \in DOMAIN state.agentPromises
    /\ state.agentPromises[i].status = "pending"
    /\ state' = [state EXCEPT !.agentPromises[i] =
                    Spread(@, Wrapped(state.script, outcome))]
    /\ UNCHANGED << now, failoverVars, pc, checkpoint, repo, log >>

\* await Promise.all(agentPromises) goes on; in langgraph a failed result
\* makes the node throw
AfterPromiseAll ==
    /\ pc = "await"
    /\ PromiseAll(state.agentPromises) # "pending"
    /\ pc' = IF PromiseAll(state.agentPromises) = "rejected" THEN "catch"
             ELSE IF state.script = "langgraph"
                     /\ \E i \in DOMAIN state.agentPromises :
                            /\ state.agentPromises[i].status = "fulfilled"
                            /\ ~state.agentPromises[i].success
                 THEN "catch"
             ELSE "apply"
    /\ UNCHANGED << now, failoverVars, state, checkpoint, repo, log >>

\* the files of the next result are written (the degraded coder's note goes to
\* the worker's first file)
ApplyResult ==
    /\ pc = "apply"
    /\ state.applied < Len(state.agentPromises)
    /\ LET r == state.agentPromises[state.applied + 1]
           files == IF r.status # "fulfilled" \/ ~r.success THEN {}
                    ELSE IF r.degraded THEN { r.agentFiles[1] }
                    ELSE Range(r.agentFiles)
       IN  repo' = [repo EXCEPT !.worktree = @ \cup files]
    /\ state' = [state EXCEPT !.applied = @ + 1]
    /\ UNCHANGED << now, failoverVars, pc, checkpoint, log >>

\* every result is applied: the conflict scan of langgraph, then git.commitAll
CommitMilestone(conflict) ==
    /\ pc = "apply"
    /\ state.applied = Len(state.agentPromises)
    /\ conflict => state.script = "langgraph" /\ repo.worktree # {}
    /\ repo' = IF conflict THEN repo ELSE commitAll(repo, "Milestone 1")
    /\ pc' = "done"
    /\ UNCHANGED << now, failoverVars, state, checkpoint, log >>

\* the catch block
CatchBlock ==
    /\ pc = "catch"
    /\ pc' = "done"
    /\ UNCHANGED << now, failoverVars, state, checkpoint, repo, log >>

NextFanOut ==
    \/ Dispatch
    \/ \E i \in 1..3, outcome \in AgentOutcomes : AgentSettles(i, outcome)
    \/ AfterPromiseAll
    \/ ApplyResult
    \/ \E conflict \in BOOLEAN : CommitMilestone(conflict)
    \/ CatchBlock

SpecFanOut == InitFanOut /\ [][NextFanOut]_vars

\* the worker calls still in flight
InFlight ==
    { i \in DOMAIN state.agentPromises : state.agentPromises[i].status = "pending" }

\* C23: every dispatched worker runs to its own end whatever the others do,
\* and no produced file is written and no commit is made while a worker call
\* of the milestone is in flight.
C23_WorkersIndependent ==
    /\ \A i \in InFlight : \A outcome \in AgentOutcomes : ENABLED AgentSettles(i, outcome)
    /\ (repo.worktree # {} \/ repo.commits # << >>) => InFlight = {}
    /\ pc \in { "apply", "catch", "done" } => InFlight = {}

\* two workers have ended differently and the files are committed
C23_Witness ==
    /\ pc = "done"
    /\ repo.commits # << >>
    /\ Len(state.agentPromises) = 3
    /\ \E i, j \in DOMAIN state.agentPromises :
           state.agentPromises[i].degraded /\ ~state.agentPromises[j].degraded

\* C24: the fan-out partitions the target files into at most 3 pairwise
\* disjoint subsets whose union is the whole list, for every number of files.
C24_FilesPartitioned ==
    pc # "dispatch" =>
        /\ Len(state.agentPromises) <= 3
        /\ \A i, j \in DOMAIN state.agentPromises :
               i # j => Range(state.agentPromises[i].agentFiles)
                            \cap Range(state.agentPromises[j].agentFiles) = {}
        /\ UNION { Range(state.agentPromises[i].agentFiles) :
                       i \in DOMAIN state.agentPromises } = Range(state.allFiles)


-----------------------------------------------------------------------------
(* The milestone loop of orchestrate (orchestrator-opencode.js) await by
   await, with the SIGTERM / SIGINT handler.  The handler runs whenever the
   loop is suspended at an await of I/O, and the loop goes on while the
   handler awaits its own checkpoint write. *)

\* what is left of a file whose write was cut or crossed another write
Torn == [ torn |-> TRUE ]

\* JSON.stringify(stateWithProgress) at the time of the write: the copy made
\* by { ...state, progress } holds the numbers and strings of that time, and
\* the arrays that are pushed to in place (milestones, errors) as they are now
Stringify(stateWithProgress, live) ==
    [stateWithProgress EXCEPT !.milestones = live.milestones, !.errors = live.errors]

Writers == { "phase", "signal" }

InitSignal ==
    /\ InitFailover({ OpencodeOptions.gracefulDegradation })
    /\ \E n \in 1..MaxMilestones :
           state = Spread(createInitialState(now),
                          [ plan |-> [ milestones |->
                                           [i \in 1..n |-> [ name |-> MilestoneNames[i],
                                                             files |-> 2 ]],
                                       confidence |-> 90 ],
                            totalMilestones |-> n,
                            phase |-> "implementing" ])
    /\ pc = "workers"
    /\ checkpoint = saveCheckpoint(state)
    /\ repo = [ worktree |-> {}, commits |-> << >> ]
    /\ log = [ signal |-> "none",      \* where the signal handler is
               copy |-> [w \in Writers |-> Null],  \* stateWithProgress of each saveCheckpoint
               writing |-> {} ]        \* the writes of the checkpoint file in flight

\* implementMilestone up to the end of await Promise.all: the files are about
\* to be written
WorkersReturn ==
    /\ pc = "workers"
    /\ pc' = "files"
    /\ UNCHANGED << now, failoverVars, state, checkpoint, repo, log >>

\* The last await fs.writeFile of the apply loop ends.  What follows runs
\* without a real wait: git.commitAll (execSync), the update of the state and
\* the call of saveCheckpoint up to its first await.
FilesWritten ==
    /\ pc = "files"
    /\ LET milestoneIndex == state.currentMilestone
           milestone == state.plan.milestones[milestoneIndex + 1]
           modifiedFiles == AllFiles(milestoneIndex, milestone)
           committed == commitAll([repo EXCEPT !.worktree = @ \cup Range(modifiedFiles)],
                                  milestone.name)
           st == [state EXCEPT
                     !.modifiedFiles = @ \o modifiedFiles,
                     !.milestones = Append(@, [ name |-> milestone.name,
                                                commit |-> Len(committed.commits),
                                                partialSuccess |-> FALSE ]),
                     !.currentMilestone = @ + 1]
       IN  /\ repo' = committed
           /\ state' = st
           /\ log' = [log EXCEPT !.copy["phase"] = saveCheckpoint(st)]
    /\ pc' = "save"
    /\ UNCHANGED << now, failoverVars, checkpoint >>

\* fs.writeFile(checkpointPath, JSON.stringify(stateWithProgress)) of writer w begins
WriteBegins(w, signal) ==
    /\ w \notin log.writing
    /\ log.copy[w] # Null
    /\ log' = [log EXCEPT !.copy[w] = Stringify(@, state), !.writing = @ \cup { w },
                          !.signal = signal]

\* ... and ends; a write that crossed another one may leave either content or neither
WriteEnds(w, signal) ==
    /\ w \in log.writing
    /\ checkpoint' \in { log.copy[w] } \cup (IF log.writing # { w } THEN { Torn } ELSE {})
    /\ log' = [log EXCEPT !.copy[w] = Null, !.writing = @ \ { w }, !.signal = signal]

\* saveCheckpoint(state) of implementMilestone
PhaseWriteBegins ==
    /\ pc = "save"
    /\ WriteBegins("phase", log.signal)
    /\ pc' = "write"
    /\ UNCHANGED << now, failoverVars, state, checkpoint, repo >>

\* ... after which the loop goes on with the next milestone, or ends
PhaseWriteEnds ==
    /\ pc = "write"
    /\ WriteEnds("phase", log.signal)
    /\ pc' = IF state.currentMilestone < state.totalMilestones THEN "workers" ELSE "exit"
    /\ UNCHANGED << now, failoverVars, state, repo >>

\* SIGTERM or SIGINT: the handler calls gracefulShutdown, which marks
\* currentState and calls saveCheckpoint up to its first await
Signal ==
    /\ log.signal = "none"
    /\ pc \in { "workers", "files", "save", "write" }
    /\ state' = gracefulShutdown(state)
    /\ log' = [log EXCEPT !.signal = "save", !.copy["signal"] = saveCheckpoint(state')]
    /\ UNCHANGED << now, failoverVars, pc, checkpoint, repo >>

SignalWriteBegins ==
    /\ log.signal = "save"
    /\ WriteBegins("signal", "write")
    /\ UNCHANGED << now, failoverVars, state, pc, checkpoint, repo >>

SignalWriteEnds ==
    /\ log.signal = "write"
    /\ WriteEnds("signal", "exit")
    /\ UNCHANGED << now, failoverVars, state, pc, repo >>

\* process.exit(0): a write of the loop that is still in flight is cut
ProcessExit ==
    /\ log.signal = "exit"
    /\ pc # "killed"
    /\ pc' = "killed"
    /\ checkpoint' \in { checkpoint } \cup (IF log.writing # {} THEN { Torn } ELSE {})
    /\ log' = [log EXCEPT !.writing = {}]
    /\ UNCHANGED << now, failoverVars, state, repo >>

NextSignal ==
    \/ pc # "killed" /\ WorkersReturn
    \/ pc # "killed" /\ FilesWritten
    \/ pc # "killed" /\ PhaseWriteBegins
    \/ pc # "killed" /\ PhaseWriteEnds
    \/ Signal
    \/ SignalWriteBegins
    \/ SignalWriteEnds
    \/ ProcessExit

SpecSignal == InitSignal /\ [][NextSignal]_vars


\* a state of the run between two phases: every committed milestone is counted
\* and recorded, with its files
AtPhaseBoundary(file) ==
    /\ file # Torn
    /\ file.currentMilestone = Len(file.milestones)
    /\ Len(file.modifiedFiles) = 2 * file.currentMilestone

\* C29: the checkpoint file always holds the state of the run at some phase
\* boundary, also when a signal arrives while a handler is suspended at an
\* await, and the write started by the signal never overlaps the write of
\* the same file started by the phase
C29_CheckpointAtPhaseBoundary ==
    /\ AtPhaseBoundary(checkpoint)
    /\ log.writing # Writers


-----------------------------------------------------------------------------
(* The checkpoint file: saveCheckpoint writes JSON.stringify(state), and
   loadCheckpoint returns JSON.parse of the file.  The values of a session
   state are tagged with their JavaScript type, since JSON has no NaN and no
   undefined. *)

Num(n) == [ type |-> "number", v |-> n ]
Str(s) == [ type |-> "string", v |-> s ]
Arr(seq) == [ type |-> "array", v |-> seq ]
NaN == [ type |-> "NaN" ]
Undefined == [ type |-> "undefined" ]
JsNull == [ type |-> "null" ]

\* obj.key
Field(obj, key) == IF key \in DOMAIN obj THEN obj[key] ELSE Undefined

\* new Date(t).toISOString(), and new Date(value).getTime()
toISOString(t) == [ type |-> "string", v |-> t ]
getTime(value) == IF value.type = "string" THEN Num(value.v) ELSE NaN

\* a - b of values that may be NaN or undefined
Minus(a, b) ==
    IF a.type = "number" /\ b.type = "number" THEN Num(a.v - b.v) ELSE NaN

\* the keys of a session state, in the order in which JSON.stringify emits them
KeyOrder ==
    << "sessionId", "startedAt", "phase", "progress", "status", "errors",
       "currentMilestone", "totalMilestones", "retryCount", "maxRetries",
       "lastError", "executionTime", "timeoutAt" >>

\* the JSON text of one value: NaN becomes null, and so does an undefined
\* element of an array
ToJSON(value) ==
    IF value.type \in { "NaN", "undefined" } THEN JsNull
    ELSE IF value.type = "array"
        THEN Arr([i \in 1..Len(value.v) |->
                     IF value.v[i].type \in { "NaN", "undefined" } THEN JsNull ELSE value.v[i]])
    ELSE value

\* JSON.stringify(obj): the members << key, value >> of the text; a key whose
\* value is undefined is left out
JSONstringify(obj) ==
    LET present == SelectSeq(KeyOrder,
                             LAMBDA key : key \in DOMAIN obj /\ obj[key] # Undefined)
    IN  [i \in 1..Len(present) |-> << present[i], ToJSON(obj[present[i]]) >>]

\* JSON.parse(text)
JSONparse(text) ==
    [key \in { text[i][1] : i \in 1..Len(text) } |->
        (CHOOSE member \in Range(text) : member[1] = key)[2]]

\* calculateProgress(finalState) of main, whose argument may lack a field
calculateProgressOf(obj) ==
    LET phaseWeights == [ initializing |-> 5, planning |-> 15, implementing |-> 60,
                          reviewing |-> 15, testing |-> 5, deploying |-> 5,
                          completed |-> 100 ]
        phase == Field(obj, "phase").v
        totalMilestones == Field(obj, "totalMilestones")
        currentMilestone == Field(obj, "currentMilestone")
    IN  IF phase = "implementing" /\ totalMilestones.type = "number" /\ totalMilestones.v > 0
            THEN IF currentMilestone.type = "number"
                     THEN Num(Min(100, 15 + Round(60 * currentMilestone.v, totalMilestones.v)))
                     ELSE NaN
        ELSE IF phase \in DOMAIN phaseWeights THEN Num(phaseWeights[phase])
        ELSE Num(0)


CheckpointScripts == { "langgraph", "opencode" }

\* the state of the graph that planNode of an earlier run saved
PlanningCheckpoint(n) ==
    [ sessionId |-> Str("session"), startedAt |-> toISOString(0), phase |-> Str("planning"),
      progress |-> Num(0), status |-> Str("pending"), errors |-> Arr(<< >>),
      currentMilestone |-> Num(0), totalMilestones |-> Num(n), retryCount |-> Num(0),
      maxRetries |-> Num(maxRetries), lastError |-> JsNull, executionTime |-> Num(0),
      timeoutAt |-> Num(GRAPH_TIMEOUT_MS) ]

\* initialState of main (orchestrator-langgraph.js), and createInitialState
\* (orchestrator-opencode.js)
InitialStateOf(script, t) ==
    IF script = "langgraph"
        THEN [ sessionId |-> Str("session"), phase |-> Str("initializing"),
               progress |-> Num(0), status |-> Str("pending"), errors |-> Arr(<< >>),
               retryCount |-> Num(0), maxRetries |-> Num(maxRetries) ]
        ELSE [ sessionId |-> Str("session"), startedAt |-> toISOString(t),
               phase |-> Str("initializing"), currentMilestone |-> Num(0),
               totalMilestones |-> Num(0), errors |-> Arr(<< >>), retryCount |-> Num(0),
               maxRetries |-> Num(maxRetries), progress |-> Num(0),
               status |-> Str("pending"), timeoutAt |-> Num(t + TIMEOUT_MS) ]

InitCheckpoint ==
    /\ InitFailover({ TRUE })
    /\ repo = [ worktree |-> {}, commits |-> << >> ]
    /\ \E script \in CheckpointScripts, RESUME \in BOOLEAN, n \in 1..MaxMilestones :
           /\ state = InitialStateOf(script, now)
           /\ pc = IF script = "langgraph" THEN "load_state" ELSE "initializing"
           /\ checkpoint = IF script = "langgraph" /\ RESUME
                               THEN JSONstringify(PlanningCheckpoint(n))
                               ELSE Null
           /\ log = [ script |-> script,
                      saved |-> Null,      \* the argument of the last saveCheckpoint
                      loaded |-> Null ]    \* what loadCheckpoint returned after it

\* what a node of the graph returns: the fields that main computes from or
\* overwrites (progress of parallelImplementationNode is overwritten by main)
NodeStates(node) ==
    CASE node = "load_state" ->
             IF checkpoint # Null
                 THEN { Spread(JSONparse(checkpoint),
                               [ sessionId |-> Str("session"), retryCount |-> Num(0),
                                 timeoutAt |-> Num(now + GRAPH_TIMEOUT_MS) ]) }
                 ELSE { [ sessionId |-> Str("session"), phase |-> Str("initializing"),
                          timeoutAt |-> Num(now + GRAPH_TIMEOUT_MS), progress |-> Num(0) ] }
      [] node = "analyze_idea" ->
             { [ totalMilestones |-> Num(n), phase |-> Str("planning") ] :
                   n \in 1..MaxMilestones }
      [] node = "plan" ->
             { [ phase |-> Str("implementing"),
                 totalMilestones |-> Field(state, "totalMilestones") ],
               [ errors |-> Arr(<< Str("plan") >>), phase |-> Str("failed"),
                 status |-> Str("error") ] }
      [] node = "parallel_implementation" ->
             LET done == IF Field(state, "currentMilestone").type = "number"
                             THEN state.currentMilestone.v + 1 ELSE 1
             IN  { [ currentMilestone |-> Num(done),
                     phase |-> Str(IF done >= state.totalMilestones.v
                                       THEN "reviewing" ELSE "implementing") ] }
      [] node = "review_code" -> { [ phase |-> Str("testing") ] }
      [] node = "test" -> { [ phase |-> Str("completed"), status |-> Str("success") ] }

\* the node that runs after a node on the path without retries, by the phase
\* of its result
NodeAfter(node, phase) ==
    CASE phase \in { "failed", "completed" } -> "END"
      [] phase = "initializing" -> "analyze_idea"
      [] phase = "planning" -> "plan"
      [] phase = "implementing" -> "parallel_implementation"
      [] phase = "reviewing" -> "review_code"
      [] phase = "testing" -> "test"

\* main of orchestrator-langgraph.js: one turn of the for await loop
StreamStep(node) ==
    /\ log.script = "langgraph"
    /\ pc = node
    /\ \E nodeState \in NodeStates(node) :
           LET merged == Spread(state, nodeState)
               timed == Spread(merged,
                               [ progress |-> calculateProgressOf(merged),
                                 executionTime |->
                                     Minus(Num(now), getTime(Field(merged, "startedAt"))) ])
           IN  /\ state' = timed
               /\ checkpoint' = JSONstringify(timed)
               /\ log' = [log EXCEPT !.saved = timed, !.loaded = Null]
               /\ pc' = NodeAfter(node, timed.phase.v)
    /\ UNCHANGED << now, failoverVars, repo >>

\* the phases that the handlers of orchestrator-opencode.js set, in order
OpencodePhases == << "planning", "implementing", "reviewing", "testing", "completed" >>

\* orchestrator-opencode.js: a handler sets the phase and saves the state
HandlerSaves(i) ==
    /\ log.script = "opencode"
    /\ pc = IF i = 1 THEN "initializing" ELSE OpencodePhases[i - 1]
    /\ LET phase == OpencodePhases[i]
           st == [state EXCEPT !.phase = Str(phase),
                               !.totalMilestones = IF i = 1 THEN Num(MaxMilestones) ELSE @,
                               !.currentMilestone = IF i = 3 THEN state.totalMilestones ELSE @]
           stateWithProgress == Spread(st, [ progress |->
                                    IF Field(st, "progress").type \in { "undefined", "NaN" }
                                        THEN Num(0) ELSE st.progress ])
       IN  /\ state' = st
           /\ checkpoint' = JSONstringify(stateWithProgress)
           /\ log' = [log EXCEPT !.saved = st, !.loaded = Null]
    /\ pc' = OpencodePhases[i]
    /\ UNCHANGED << now, failoverVars, repo >>

\* loadCheckpoint(sessionId)
LoadCheckpoint ==
    /\ log.saved # Null
    /\ log.loaded = Null
    /\ log' = [log EXCEPT !.loaded = JSONparse(checkpoint)]
    /\ UNCHANGED << now, failoverVars, state, pc, checkpoint, repo >>

\* time passes
ClockTick ==
    /\ now < MaxTime
    /\ now' = now + 1
    /\ UNCHANGED << failoverVars, state, pc, checkpoint, repo, log >>

NextCheckpoint ==
    \/ \E node \in { "load_state", "analyze_idea", "plan", "parallel_implementation",
                     "review_code", "test" } : StreamStep(node)
    \/ \E i \in 1..Len(OpencodePhases) : HandlerSaves(i)
    \/ LoadCheckpoint
    \/ ClockTick

SpecCheckpoint == InitCheckpoint /\ [][NextCheckpoint]_vars

\* a.key = b.key for every key
FieldForField(a, b) ==
    \A key \in DOMAIN a \cup DOMAIN b : Field(a, key) = Field(b, key)

-----------------------------------------------------------------------------
(* One CircuitBreaker shared by concurrent calls *)

\* C31: whenever an invocation of a model returns successfully, the breaker of
\* the model is CLOSED afterwards, also when the failures of other calls in
\* flight opened it after this call had passed the status check
C31_SuccessLeavesBreakerClosed ==
    (returned.kind = "execute" /\ returned.pc = "done" /\ returned.invoked
        /\ "value" \in DOMAIN returned.result)
        => returned.statusAfter = "CLOSED"


-----------------------------------------------------------------------------
(* Partial acceptance in implementMilestone *)

\* the step of implementMilestone that accepts a milestone
MilestoneAccepted ==
    /\ pc = "loop"
    /\ pc' = "afterMilestone"
    /\ log'.last.handler = "implementMilestone"
    /\ log'.last.recorded

\* C32: when a milestone is accepted, exactly the files of the workers with
\* success = true are written, one commit is made, and the recorded milestone
\* has partialSuccess = true if and only if at least one worker failed
C32_PartialAcceptance ==
    [][MilestoneAccepted =>
          /\ repo'.worktree = {}
          /\ Len(repo'.commits) = Len(repo.commits) + 1
          /\ log'.last.wrote \subseteq Last(repo'.commits).files
          /\ Last(state'.milestones).partialSuccess
                 <=> (log'.last.succeeded < log'.last.workers)]_vars


-----------------------------------------------------------------------------
(* The milestones list of the session *)

\* parallelImplementationNode returns with a milestone committed
MilestoneCommitted ==
    ImplementationReturns /\ state'.currentMilestone > state.currentMilestone

\* C33: in every state returned by parallelImplementationNode of
\* orchestrator-openclaw.js and in every checkpoint it writes, milestones holds
\* one record per completed milestone, appended in completion order, so that
\* milestones.length equals currentMilestone
C33_MilestonesComplete ==
    [][(log.script = "openclaw" /\ MilestoneCommitted) =>
          /\ Len(state'.milestones) = state'.currentMilestone
          /\ SubSeq(state'.milestones, 1, Len(state.milestones)) = state.milestones
          /\ Len(checkpoint'.milestones) = checkpoint'.currentMilestone]_vars


-----------------------------------------------------------------------------
(* Retries of a milestone in the graph of orchestrator-langgraph.js *)

\* handle_error runs after an attempt of a milestone has failed because a
\* worker call failed, with retries left
HandlesWorkerFailure ==
    /\ log.script = "langgraph"
    /\ pc = "handle_error"
    /\ Last(log.nodes) = << "parallel_implementation", "error" >>
    /\ state.retryCount < state.maxRetries
    /\ log'.steps = log.steps + 1

\* C34: when an attempt of a milestone fails because a worker call timed out
\* and retryCount < maxRetries, handleErrorNode takes the error as retryable
\* and the same milestone is attempted again; the session does not go to failed
C34_WorkerTimeoutRetried ==
    [][HandlesWorkerFailure =>
          /\ pc' = "parallel_implementation"
          /\ state'.phase # "failed"
          /\ state'.currentMilestone = state.currentMilestone]_vars


-----------------------------------------------------------------------------
(* DependencyResolver (edge-case-handler.js): the dependency graph is a Map
   from a file to the list of what it imports; detectCycles searches it depth
   first. *)

Files == { "a.js", "b.js", "c.js" }

\* what an import resolves to: a file, or an external module
Imports == Files \cup { "fs" }

\* the longest list of imports of a file
MaxImports == 2

\* the lists of imports of a file
ImportLists ==
    { list \in UNION { [1..n -> Imports] : n \in 0..MaxImports } :
          \A i, j \in DOMAIN list : i # j => list[i] # list[j] }

\* path.indexOf(node), counted from 1; 0 when node is not in path
IndexOf(path, node) ==
    IF \E i \in DOMAIN path : path[i] = node
        THEN CHOOSE i \in DOMAIN path : path[i] = node /\ \A j \in 1..(i - 1) : path[j] # node
        ELSE 0

\* path.slice(start - 1), start as IndexOf gives it: slice(-1) is the last element
Slice(path, start) ==
    IF start = 0 THEN SubSeq(path, Len(path), Len(path))
    ELSE SubSeq(path, start, Len(path))

RECURSIVE dfs(_, _, _, _)
RECURSIVE forDependencies(_, _, _, _)

\* dfs that looks at visited before it looks at recursionStack
dfs_VisitedFirst(graph, node, path, acc) ==
    IF node \in acc.visited THEN acc
    ELSE IF node \in acc.recursionStack
        THEN [acc EXCEPT !.cycles = Append(@, Slice(path, IndexOf(path, node)) \o << node >>)]
    ELSE LET entered == [acc EXCEPT !.visited = @ \cup { node },
                                    !.recursionStack = @ \cup { node }]
             left == forDependencies(graph, graph[node], Append(path, node), entered)
         IN  [left EXCEPT !.recursionStack = @ \ { node }]

\* dfs(node, path): acc holds visited, recursionStack and cycles
dfs(graph, node, path, acc) ==
    IF node \in acc.recursionStack
        THEN [acc EXCEPT !.cycles = Append(@, Slice(path, IndexOf(path, node)) \o << node >>)]
    ELSE IF node \in acc.visited THEN acc
    ELSE LET entered == [acc EXCEPT !.visited = @ \cup { node },
                                    !.recursionStack = @ \cup { node }]
             left == forDependencies(graph, graph[node], Append(path, node), entered)
         IN  [left EXCEPT !.recursionStack = @ \ { node }]

\* for (const dep of dependencies) if (graph.has(dep)) dfs(dep, path.concat(node))
forDependencies(graph, dependencies, path, acc) ==
    IF dependencies = << >> THEN acc
    ELSE forDependencies(graph, Tail(dependencies), path,
                         IF Head(dependencies) \in DOMAIN graph
                             THEN dfs(graph, Head(dependencies), path, acc)
                             ELSE acc)

\* for (const node of graph.keys()) dfs(node)
RECURSIVE forKeys(_, _, _)
forKeys(graph, keys, acc) ==
    IF keys = << >> THEN acc
    ELSE forKeys(graph, Tail(keys), dfs(graph, Head(keys), << >>, acc))

\* detectCycles(graph); keys is graph.keys(), in the order of insertion
detectCycles(graph, keys) ==
    forKeys(graph, keys, [ visited |-> {}, recursionStack |-> {}, cycles |-> << >> ]).cycles

InitCycles ==
    /\ InitFailover({ TRUE })
    /\ state = [ graph |-> << >>, keys |-> << >> ]
    /\ pc = "buildDependencyGraph"
    /\ checkpoint = Null
    /\ repo = Null
    /\ log = Null

\* buildDependencyGraph: graph.set(file, imports) for the next file
GraphSet(file, imports) ==
    /\ pc = "buildDependencyGraph"
    /\ file \notin DOMAIN state.graph
    /\ state' = [ graph |-> MapSet(state.graph, file, imports),
                  keys |-> Append(state.keys, file) ]
    /\ UNCHANGED << now, failoverVars, pc, checkpoint, repo, log >>

\* checkCircularDependencies: return this.detectCycles(graph)
DetectCycles ==
    /\ pc = "buildDependencyGraph"
    /\ pc' = "detectCycles"
    /\ log' = detectCycles(state.graph, state.keys)
    /\ UNCHANGED << now, failoverVars, state, checkpoint, repo >>

NextCycles ==
    \/ \E file \in Files, imports \in ImportLists : GraphSet(file, imports)
    \/ DetectCycles

SpecCycles == InitCycles /\ [][NextCycles]_vars

\* an edge of the graph restricted to its keys
Edge(graph, from, to) ==
    from \in DOMAIN graph /\ to \in DOMAIN graph /\ to \in Range(graph[from])

\* to is reached from from by at least one and at most n edges
RECURSIVE ReachedIn(_, _, _, _)
ReachedIn(graph, from, to, n) ==
    /\ n > 0
    /\ \/ Edge(graph, from, to)
       \/ \E via \in DOMAIN graph : Edge(graph, from, via) /\ ReachedIn(graph, via, to, n - 1)

HasCycle(graph) ==
    \E node \in DOMAIN graph : ReachedIn(graph, node, node, Cardinality(DOMAIN graph))

IsCycle(graph, list) ==
    /\ Len(list) >= 2
    /\ list[1] = list[Len(list)]
    /\ \A i \in 1..(Len(list) - 1) : Edge(graph, list[i], list[i + 1])

\* C35: detectCycles returns a non-empty list if and only if the graph
\* restricted to its keys has a directed cycle, and every list it returns is a
\* cycle of that graph: it starts and ends with the same node and each
\* consecutive pair is an edge
C35_CyclesDetected ==
    pc = "detectCycles" =>
        /\ (log # << >>) <=> HasCycle(state.graph)
        /\ \A i \in DOMAIN log : IsCycle(state.graph, log[i])

\* a cycle through three files is reported
C35_Witness ==
    /\ pc = "detectCycles"
    /\ \E i \in DOMAIN log : Len(log[i]) = 4


-----------------------------------------------------------------------------
(* The degradedMode flag of orchestrator-opencode.js *)

\* a handler consumes a result of executeWithFailover with degraded = true:
\* every model of its call failed and the degraded result was returned
ConsumesDegraded ==
    \/ analyzeIdea([ kind |-> "allFailed" ])
    \/ createPlan([ kind |-> "allFailed" ])
    \/ \E outcomes \in OutcomeLists :
           /\ \E i \in DOMAIN outcomes : outcomes[i] = "allFailed"
           /\ implementMilestone(outcomes)
    \/ reviewCode("allFailed")

\* C36: degradedMode is true in every state reached after analyzeIdea,
\* createPlan, implementMilestone or reviewCode consumed a result with
\* degraded = true, and it is never set back to false
C36_DegradedModeSticky ==
    [][/\ ConsumesDegraded => state'.degradedMode
       /\ state.degradedMode => state'.degradedMode]_vars


-----------------------------------------------------------------------------
(* The end of a session of orchestrator-opencode.js *)

\* C37: a session is in phase 'completed' only when its tests passed or could
\* not be run: phase = 'completed' implies testPassed = true and
\* status = 'success'
C37_CompletedOnlyIfTestsPassed ==
    state.phase = "completed" => (state.testPassed /\ state.status = "success")


-----------------------------------------------------------------------------
(* Retries of the analysis in the graph of orchestrator-langgraph.js *)

\* analyzeIdeaNode returns an analysis
AnalysisSucceeds ==
    /\ log.script = "langgraph"
    /\ Runs("analyze_idea")
    /\ log'.nodes = Append(log.nodes, << "analyze_idea", "ok" >>)

\* C38: analyze_idea runs at most maxRetries + 1 times in a run of the graph:
\* when analyzeIdeaNode succeeds, after fewer than maxRetries failures,
\* routeAfterAnalysis routes on to plan, parallel_implementation or
\* human_clarification and not back to analyze_idea
C38_AnalysisNotRepeatedAfterSuccess ==
    /\ [](log.script = "langgraph" => Len(RunsOf("analyze_idea")) <= maxRetries + 1)
    /\ [][AnalysisSucceeds =>
             pc' \in { "plan", "parallel_implementation", "human_clarification" }]_vars


-----------------------------------------------------------------------------
(* The route after a committed milestone in orchestrator-langgraph.js *)

\* C39: a milestone that succeeds is not treated as an error: after
\* parallelImplementationNode has committed a milestone, also when an earlier
\* attempt or phase recorded an error, routeAfterImplementation routes to the
\* next milestone or to review_code, not to handle_error, and retryCount is
\* not incremented
C39_CommittedMilestoneIsNoError ==
    [][(log.script = "langgraph" /\ MilestoneCommitted) =>
          /\ pc' \in { "parallel_implementation", "review_code" }
          /\ state'.retryCount = state.retryCount]_vars

====
